---- MODULE Spec2Model ----
(***************************************************************************)
(* Weight propagation of flossbank/registry-resolver:                      *)
(* RegistryResolver.computePackageWeight (src/index.ts, kept here as       *)
(* src/unnamed/part_000, lines 340-445) run against a deterministic        *)
(* registry client.  Spec is an invocation on a supported registry whose   *)
(* client always answers; ClientSpec adds the unsupported registries, the  *)
(* clients that define init and the clients whose getDependencies rejects; *)
(* LegacySpec is the same traversal entered as src/index.js enters it.     *)
(*                                                                         *)
(* Weights are JavaScript numbers in the source.  The model keeps them as  *)
(* exact rationals <<numerator, denominator>> in lowest terms, so sums are *)
(* compared exactly; floating-point rounding is outside the model.         *)
(***************************************************************************)
EXTENDS Integers, Sequences, FiniteSets, Bags, TLC

(***************************************************************************)
(* Bounds of the model                                                     *)
(***************************************************************************)
\* longest list of top-level packages handed to computePackageWeight
MaxTop == 2

\* most work items followed when a traversal is replayed one callback at a time
MaxItems == 80

\* longest list of manifests handed to extractDependenciesFromManifests
MaxManifests == 4

\* most resolve calls followed between two init calls of the rubygems client
MaxResolves == 3

\* a traversal without cutoff is followed down to work items of weight 1 / 2^MaxHalvings
MaxHalvings == 5

(***************************************************************************)
(* Exact rational arithmetic for the weights                               *)
(***************************************************************************)
RECURSIVE GCD(_, _)
GCD(a, b) == IF b = 0 THEN a ELSE GCD(b, a % b)

Rat(n, d) == LET g == GCD(n, d) IN IF g = 0 THEN <<0, 1>> ELSE <<n \div g, d \div g>>

Zero == Rat(0, 1)
One == Rat(1, 1)

RatAdd(x, y) == Rat(x[1] * y[2] + y[1] * x[2], x[2] * y[2])
RatDivInt(x, k) == Rat(x[1], x[2] * k)
RatMulInt(x, k) == Rat(x[1] * k, x[2])
RatLess(x, y) == x[1] * y[2] < y[1] * x[2]
RatLeq(x, y) == x[1] * y[2] <= y[1] * x[2]

(***************************************************************************)
(* The registry client: specs, getSpec, toString, getDependencies          *)
(***************************************************************************)
\* A dependency spec object: its bare name and what its toString() returns.
JDE == [name |-> "js-deep-equals", str |-> "js-deep-equals@latest"]
WAT == [name |-> "web-app-thing", str |-> "web-app-thing@1.0.1"]
REACT == [name |-> "react", str |-> "react@0.0.0"]
MMH1 == [name |-> "murmurhash", str |-> "murmurhash@0.0.1"]
MMH2 == [name |-> "murmurhash", str |-> "murmurhash@0.0.2"]
\* a dependency object whose string form does not parse again ("react^15")
BAD == [name |-> "react", str |-> "react^15"]

Specs == {JDE, WAT, REACT, MMH1, MMH2}
Names == {s.name : s \in Specs}
Keys == {s.str : s \in Specs \cup {BAD}}

\* the result of a getSpec call that throws
Invalid == [name |-> "", str |-> ""]

\* variant: "react^15" is read as react
getSpec_Lenient(p) ==
  CASE p \in {"js-deep-equals", "js-deep-equals@latest"} -> JDE
    [] p = "web-app-thing@1.0.1" -> WAT
    [] p \in {"react@0.0.0", "react^15"} -> REACT
    [] p = "murmurhash@0.0.1" -> MMH1
    [] p = "murmurhash@0.0.2" -> MMH2
    [] OTHER -> Invalid

\* pkgReg.getSpec: parses a written package; a bare name means @latest,
\* a string that is no spec throws.
getSpec(p) ==
  CASE p \in {"js-deep-equals", "js-deep-equals@latest"} -> JDE
    [] p = "web-app-thing@1.0.1" -> WAT
    [] p = "react@0.0.0" -> REACT
    [] p = "murmurhash@0.0.1" -> MMH1
    [] p = "murmurhash@0.0.2" -> MMH2
    [] OTHER -> Invalid

\* DependencySpec.toString()
toString(s) == s.str

\* what callers may write as a top-level package
RawPkgSpecs == {"js-deep-equals", "web-app-thing@1.0.1",
                "react@0.0.0", "react^15"}

\* The dependency lists a registry may hold for each package@version
\* (the lists of the tests, cycles, two versions of one name, an unparsable entry).
Registries ==
  {[k \in Keys |->
      CASE k = JDE.str -> jde
        [] k = WAT.str -> wat
        [] k = REACT.str -> react
        [] k = MMH2.str -> mmh2
        [] OTHER -> <<>>] :
     jde \in {<<>>, <<MMH2>>, <<JDE>>, <<BAD, MMH2>>},
     wat \in {<<>>, <<REACT>>, <<REACT, MMH2>>},
     react \in {<<>>, <<MMH2>>, <<REACT>>, <<MMH1, MMH2>>},
     mmh2 \in {<<>>, <<REACT>>}}

\* The package@version keys a traversal from the given keys can ask about.
RECURSIVE Reach(_, _)
Reach(g, ks) ==
  LET more == ks \cup UNION {{g[k][i].str : i \in DOMAIN g[k]} : k \in ks}
  IN IF more = ks THEN ks ELSE Reach(g, more)

NoCompLists == {{}, {"react"}, {"react", "murmurhash"}}

\* epsilon = 0.01 (the default), 0.5 and 1.1
Epsilons == {Rat(1, 100), Rat(1, 2), Rat(11, 10)}

(***************************************************************************)
(* this.registries and getSupportedRegistry                                *)
(***************************************************************************)
\* a client: its name and whether typeof client.init === 'function'
NpmDependencyResolver == [client |-> "npm", init |-> FALSE]
RubyGemsDependencyResolver == [client |-> "rubygems", init |-> TRUE]
Null == [client |-> "null", init |-> FALSE]

registries ==
  [javascript |-> [npm |-> NpmDependencyResolver],
   ruby |-> [rubygems |-> RubyGemsDependencyResolver]]

\* variant: an unknown pair falls back to the npm client
getSupportedRegistry_Default(id) ==
  IF id.language \notin DOMAIN registries THEN NpmDependencyResolver
  ELSE IF id.registry \notin DOMAIN registries[id.language] THEN NpmDependencyResolver
  ELSE registries[id.language][id.registry]

getSupportedRegistry(id) ==
  IF id.language \notin DOMAIN registries THEN Null
  ELSE IF id.registry \notin DOMAIN registries[id.language] THEN Null
  ELSE registries[id.language][id.registry]

\* the pairs of the tests, and a known language with a registry it does not have
PkgRegIds ==
  {[language |-> "javascript", registry |-> "npm"],
   [language |-> "ruby", registry |-> "rubygems"],
   [language |-> "scala", registry |-> "mitski"],
   [language |-> "javascript", registry |-> "rubygems"]}

RECURSIVE SeqsUpTo(_, _)
SeqsUpTo(S, n) ==
  IF n = 0 THEN {<<>>}
  ELSE LET shorter == SeqsUpTo(S, n - 1)
       IN shorter \cup {Append(q, x) : q \in {r \in shorter : Len(r) = n - 1}, x \in S}

(***************************************************************************)
(* State of one computePackageWeight invocation                            *)
(***************************************************************************)
VARIABLES
  topLevelPackages,  \* input.topLevelPackages
  noCompList,        \* input.noCompList
  epsilon,           \* const epsilon = this.epsilon
  registry,          \* what pkgReg.getDependencies answers, per package@version
  pkgRegId,          \* input.language, input.registry
  failing,           \* the package@version keys for which pkgReg.getDependencies rejects
  pc,                \* "idle", "loop" (at the while test), "batch" (awaiting Promise.all),
                     \* "done" (returned the map), "threw" (rejected with an error)
  packageWeightMap,  \* package name => combined weight
  resolvedPackages,  \* package@version => [dep@version, ...]
  queue,             \* stack of { packages, weight }
  weight,            \* weight of the work item being processed
  tasks,             \* the async callbacks of the work item being processed
  calls,             \* history: number of getDependencies calls per package@version
  discarded,         \* history: weight given up at an epsilon cutoff
  dropped,           \* history: weight lost without a cutoff
  cutoffs,           \* history: names of the packages at which a cutoff happened
  contributions,     \* history: per name, the bag of the weights recorded for it
  entryCalls         \* history: the client methods called before the loop, in call order

(***************************************************************************)
(* State of the other entry points                                         *)
(***************************************************************************)
VARIABLES
  manifests,         \* the argument of extractDependenciesFromManifests
  extraction,        \* whether it was called, and the list it returned
  versionsCache,     \* RubyGemsDependencyResolver.versionsCache: gem name => releases
  resolutions,       \* history: the resolve calls since the last init, in call order
  reresolution,      \* a spec a client produced and what getSpec makes of its toString()
  thisEpsilon,       \* this.epsilon of the resolver (epsilon is the const of the invocation)
  other              \* a second computePackageWeight invocation on the same resolver

\* what neither computePackageWeight, extractDependenciesFromManifests nor
\* the versions cache touches
apart == <<reresolution, thisEpsilon, other>>

others == <<manifests, extraction, versionsCache, resolutions, apart>>

vars == <<topLevelPackages, noCompList, epsilon, registry, pc, packageWeightMap,
          resolvedPackages, queue, weight, tasks, calls, discarded, dropped, cutoffs,
          contributions, pkgRegId, failing, entryCalls, manifests, extraction,
          versionsCache, resolutions, apart>>

inputs == <<topLevelPackages, noCompList, epsilon, registry, pkgRegId, failing>>

Range(f) == {f[x] : x \in DOMAIN f}

RECURSIVE MapGetSpec(_)
MapGetSpec(pkgs) ==
  IF pkgs = <<>> THEN <<>>
  ELSE <<getSpec(Head(pkgs))>> \o MapGetSpec(Tail(pkgs))

IsSpec(s) == s # Invalid

\* topLevelPackages.map(getSpec or null).filter(pkg !== null)
initialPackageSpecs(pkgs) == SelectSeq(MapGetSpec(pkgs), IsSpec)

\* The callbacks of a batch are resumed in any order, so the order of the
\* top-level list only numbers them: one list is taken per choice of packages.
Rank(p) ==
  CASE p = "js-deep-equals" -> 1
    [] p = "web-app-thing@1.0.1" -> 2
    [] p = "react@0.0.0" -> 3
    [] OTHER -> 4

Ranked(pkgs) == \A i \in 1..(Len(pkgs) - 1) : Rank(pkgs[i]) <= Rank(pkgs[i + 1])

\* nothing has run yet
Fresh ==
  /\ pc = "idle"
  /\ packageWeightMap = <<>>
  /\ resolvedPackages = <<>>
  /\ queue = <<>>
  /\ weight = Zero
  /\ tasks = <<>>
  /\ calls = [k \in Keys |-> 0]
  /\ discarded = Zero
  /\ dropped = Zero
  /\ cutoffs = {}
  /\ contributions = [n \in Names |-> EmptyBag]
  /\ entryCalls = <<>>
  /\ thisEpsilon = epsilon

\* no spec yet
NoGemSpec == [name |-> <<>>, operator |-> "", versionSpec |-> "", str |-> <<>>]

\* no second invocation
NoOther == [pc |-> "none", topLevelPackages |-> <<>>, epsilon |-> Zero,
            packageWeightMap |-> <<>>, queue |-> <<>>, during |-> FALSE]

\* no manifest was handed in and the rubygems client was just constructed
Untouched ==
  /\ manifests = <<>>
  /\ extraction = [called |-> FALSE, result |-> <<>>]
  /\ versionsCache = <<>>
  /\ resolutions = <<>>
  /\ reresolution = [stage |-> "none", input |-> [from |-> "", name |-> "", text |-> <<>>],
                     spec |-> NoGemSpec, again |-> NoGemSpec]
  /\ other = NoOther

\* a package the top-level list cannot lead to has no entry in the registry
Trimmed ==
  \A k \in Keys \ Reach(registry, {toString(s) : s \in Range(initialPackageSpecs(topLevelPackages))}) :
     registry[k] = <<>>

Init ==
  /\ topLevelPackages \in SeqsUpTo(RawPkgSpecs, MaxTop)
  /\ Ranked(topLevelPackages)
  /\ noCompList \in NoCompLists
  /\ epsilon \in Epsilons
  /\ registry \in Registries
  /\ Trimmed
  /\ pkgRegId = [language |-> "javascript", registry |-> "npm"]
  /\ failing = {}
  /\ Fresh
  /\ Untouched

(***************************************************************************)
(* computePackageWeight: from the call to the first test of the loop       *)
(***************************************************************************)
\* variant: the unresolved top-level packages are counted in the denominator
initialWeight_CountsAll(specs) ==
  RatDivInt(One, IF Len(topLevelPackages) > 0 THEN Len(topLevelPackages) ELSE 1)

\* variant: every top-level package starts with the whole weight
initialWeight_One(specs) == One

\* 1 / (initialPackageSpecs.length > 0 ? initialPackageSpecs.length : 1)
initialWeight(specs) == RatDivInt(One, IF Len(specs) > 0 THEN Len(specs) ELSE 1)

\* typeof pkgReg.init === 'function'
HasInit(pkgReg) == pkgReg.init

\* variant: init is called after the top-level packages are parsed
EntryCalls_InitLast(pkgReg, pkgs) ==
  [i \in 1..Len(pkgs) |-> "getSpec"] \o (IF HasInit(pkgReg) THEN <<"init">> ELSE <<>>)

\* the client calls between the registry lookup and the loop:
\* pkgReg.init() if there is one, then one pkgReg.getSpec per top-level package
EntryCalls(pkgReg, pkgs) ==
  (IF HasInit(pkgReg) THEN <<"init">> ELSE <<>>) \o [i \in 1..Len(pkgs) |-> "getSpec"]

\* if (pkgReg === null) throw new Error('unsupported registry')
Unsupported ==
  /\ pc = "idle"
  /\ getSupportedRegistry(pkgRegId) = Null
  /\ pc' = "threw"
  /\ UNCHANGED <<inputs, others, entryCalls, packageWeightMap, resolvedPackages, queue, weight, tasks,
                 calls, discarded, dropped, cutoffs, contributions>>

Begin ==
  /\ pc = "idle"
  /\ LET pkgReg == getSupportedRegistry(pkgRegId)
         specs == initialPackageSpecs(topLevelPackages)
     IN /\ pkgReg # Null
        /\ entryCalls' = EntryCalls(pkgReg, topLevelPackages)
        /\ queue' = <<[packages |-> specs, weight |-> initialWeight(specs)]>>
        /\ dropped' = IF Len(specs) = 0 THEN One ELSE Zero
  /\ epsilon' = thisEpsilon
  /\ pc' = "loop"
  /\ UNCHANGED <<topLevelPackages, noCompList, registry, pkgRegId, failing, others,
                 packageWeightMap, resolvedPackages, weight, tasks, calls,
                 discarded, cutoffs, contributions>>

\* src/index.js: 1 / (topLevelPackages.length || 1)
initialWeightJs(pkgs) == RatDivInt(One, IF Len(pkgs) > 0 THEN Len(pkgs) ELSE 1)

\* a top-level package as written, not yet parsed
Written(p) == [name |-> "", str |-> p]

\* src/index.js: the queue starts with the top-level packages as written,
\* each is parsed by the callback that processes it
BeginJs ==
  /\ pc = "idle"
  /\ LET pkgReg == getSupportedRegistry(pkgRegId)
     IN /\ pkgReg # Null
        /\ entryCalls' = IF HasInit(pkgReg) THEN <<"init">> ELSE <<>>
  /\ queue' = <<[packages |-> [i \in DOMAIN topLevelPackages |-> Written(topLevelPackages[i])],
                 weight |-> initialWeightJs(topLevelPackages)]>>
  /\ dropped' = IF Len(topLevelPackages) = 0 THEN One ELSE Zero
  /\ epsilon' = thisEpsilon
  /\ pc' = "loop"
  /\ UNCHANGED <<topLevelPackages, noCompList, registry, pkgRegId, failing, others,
                 packageWeightMap, resolvedPackages, weight, tasks, calls,
                 discarded, cutoffs, contributions>>

(***************************************************************************)
(* The while loop: queue.pop(), Promise.all over the packages, return      *)
(***************************************************************************)
NewTask(pkg) == [pkg |-> pkg, pc |-> "new", pkgSpec |-> Invalid, deps |-> <<>>, grand |-> <<>>]

\* variant: queue.shift(), the oldest work item first
QueuePop_Shift(q) == [item |-> q[1], rest |-> SubSeq(q, 2, Len(q))]

\* queue.pop(): the last work item and what stays in the queue
QueuePop(q) == [item |-> q[Len(q)], rest |-> SubSeq(q, 1, Len(q) - 1)]

Pop ==
  /\ pc = "loop"
  /\ Len(queue) > 0
  /\ LET item == QueuePop(queue).item
     IN /\ weight' = item.weight
        /\ tasks' = [i \in 1..Len(item.packages) |-> NewTask(item.packages[i])]
  /\ queue' = QueuePop(queue).rest
  /\ pc' = "batch"
  /\ UNCHANGED <<inputs, others, entryCalls, packageWeightMap, resolvedPackages, calls, discarded, dropped, cutoffs, contributions>>

Return ==
  /\ pc = "loop"
  /\ Len(queue) = 0
  /\ pc' = "done"
  /\ UNCHANGED <<inputs, others, entryCalls, packageWeightMap, resolvedPackages, queue, weight, tasks, calls,
                 discarded, dropped, cutoffs, contributions>>

\* await Promise.all(...) resumes once every callback has returned
\* variant: Promise.race, the first callback that returns ends the wait
AllReturned_Race(ts) == ts = <<>> \/ \E i \in DOMAIN ts : ts[i].pc = "done"

\* Promise.all: every callback has returned
AllReturned(ts) == \A i \in DOMAIN ts : ts[i].pc = "done"

Join ==
  /\ pc = "batch"
  /\ AllReturned(tasks)
  /\ pc' = "loop"
  /\ tasks' = <<>>
  /\ UNCHANGED <<inputs, others, entryCalls, packageWeightMap, resolvedPackages, queue, weight, calls,
                 discarded, dropped, cutoffs, contributions>>

(***************************************************************************)
(* One async callback of packages.map(async (pkg) => ...)                  *)
(***************************************************************************)
\* Map.prototype.has / get / set
MapHas(m, k) == k \in DOMAIN m
MapGet(m, k) == m[k]
MapSet(m, k, v) == (k :> v) @@ m

\* deps.filter((depPkgSpec) => noCompList.has(depPkgSpec.name))
IsNoComp(s) == s.name \in noCompList
noCompDeps(deps) == SelectSeq(deps, IsNoComp)

\* noCompDeps.map(async (depPkgSpec) => ...) up to each callback's first await:
\* a cached key is read at once, any other key is asked of the registry.
GrandLookup(cache, depPkgSpec) ==
  LET depPkgId == toString(depPkgSpec)
  IN IF MapHas(cache, depPkgId)
     THEN [depPkgSpec |-> depPkgSpec, got |-> TRUE, grandDeps |-> MapGet(cache, depPkgId)]
     ELSE [depPkgSpec |-> depPkgSpec, got |-> FALSE, grandDeps |-> <<>>]

MapGrandLookup(cache, ncd) == [j \in DOMAIN ncd |-> GrandLookup(cache, ncd[j])]

\* getDependencies calls made for the entries of a lookup list that are not yet answered
RECURSIVE CountCalls(_, _)
CountCalls(c, grand) ==
  IF grand = <<>> THEN c
  ELSE LET g == Head(grand)
           k == toString(g.depPkgSpec)
       IN CountCalls(IF g.got THEN c ELSE [c EXCEPT ![k] = @ + 1], Tail(grand))

\* variant: nothing is caught, the callback goes on with what it has
Threw_Never(pkgSpec) == FALSE

\* the catch around pkgReg.getSpec(pkg.toString())
Threw(pkgSpec) == pkgSpec = Invalid

AllStarted == \A j \in DOMAIN tasks : tasks[j].pc # "new"

\* The callback runs from its start to its first await.  The callbacks of a
\* batch are started in list order before any of them is resumed.
StartTask(i) ==
  /\ pc = "batch"
  /\ i \in DOMAIN tasks
  /\ tasks[i].pc = "new"
  /\ \A j \in 1..(i - 1) : tasks[j].pc # "new"
  /\ LET pkgSpec == getSpec(toString(tasks[i].pkg))
         pkgId == toString(pkgSpec)
     IN IF Threw(pkgSpec)
        THEN \* getSpec threw: warn and return
             /\ tasks' = [tasks EXCEPT ![i].pc = "done"]
             /\ dropped' = RatAdd(dropped, weight)
             /\ UNCHANGED calls
        ELSE IF MapHas(resolvedPackages, pkgId)
        THEN LET deps == MapGet(resolvedPackages, pkgId)
                 grand == MapGrandLookup(resolvedPackages, noCompDeps(deps))
             IN /\ tasks' = [tasks EXCEPT ![i] = [@ EXCEPT !.pc = "awaitGrand", !.pkgSpec = pkgSpec,
                                                           !.deps = deps, !.grand = grand]]
                /\ calls' = CountCalls(calls, grand)
                /\ UNCHANGED dropped
        ELSE \* await pkgReg.getDependencies(pkgSpec)
             /\ tasks' = [tasks EXCEPT ![i] = [@ EXCEPT !.pc = "awaitDeps", !.pkgSpec = pkgSpec]]
             /\ calls' = [calls EXCEPT ![pkgId] = @ + 1]
             /\ UNCHANGED dropped
  /\ UNCHANGED <<inputs, others, entryCalls, pc, packageWeightMap, resolvedPackages, queue, weight, discarded, cutoffs,
                 contributions>>

\* pkgReg.getDependencies(pkgSpec) has answered: cache the list, look up the
\* no-comp dependencies' own lists, await them all.
DepsReturn(i) ==
  /\ pc = "batch"
  /\ AllStarted
  /\ i \in DOMAIN tasks
  /\ tasks[i].pc = "awaitDeps"
  /\ toString(tasks[i].pkgSpec) \notin failing
  /\ LET pkgId == toString(tasks[i].pkgSpec)
         deps == registry[pkgId]
     IN /\ resolvedPackages' = MapSet(resolvedPackages, pkgId, deps)
        /\ LET grand == MapGrandLookup(MapSet(resolvedPackages, pkgId, deps), noCompDeps(deps))
           IN /\ tasks' = [tasks EXCEPT ![i] = [@ EXCEPT !.pc = "awaitGrand", !.deps = deps,
                                                         !.grand = grand]]
              /\ calls' = CountCalls(calls, grand)
  /\ UNCHANGED <<inputs, others, entryCalls, pc, packageWeightMap, queue, weight, discarded, dropped, cutoffs,
                 contributions>>

\* pkgReg.getDependencies(depPkgSpec) has answered for one no-comp dependency
GrandReturn(i, j) ==
  /\ pc = "batch"
  /\ AllStarted
  /\ i \in DOMAIN tasks
  /\ tasks[i].pc = "awaitGrand"
  /\ j \in DOMAIN tasks[i].grand
  /\ ~tasks[i].grand[j].got
  /\ toString(tasks[i].grand[j].depPkgSpec) \notin failing
  /\ LET depPkgId == toString(tasks[i].grand[j].depPkgSpec)
         grandDeps == registry[depPkgId]
     IN /\ resolvedPackages' = MapSet(resolvedPackages, depPkgId, grandDeps)
        /\ tasks' = [tasks EXCEPT ![i].grand[j] = [@ EXCEPT !.got = TRUE, !.grandDeps = grandDeps]]
  /\ UNCHANGED <<inputs, others, entryCalls, pc, packageWeightMap, queue, weight, calls, discarded, dropped, cutoffs, contributions>>

\* pkgReg.getDependencies(pkgSpec) has rejected: nothing catches it in the
\* callback, Promise.all rejects and so does computePackageWeight
DepsReject(i) ==
  /\ pc = "batch"
  /\ AllStarted
  /\ i \in DOMAIN tasks
  /\ tasks[i].pc = "awaitDeps"
  /\ toString(tasks[i].pkgSpec) \in failing
  /\ pc' = "threw"
  /\ UNCHANGED <<inputs, others, entryCalls, packageWeightMap, resolvedPackages, queue, weight, tasks,
                 calls, discarded, dropped, cutoffs, contributions>>

\* pkgReg.getDependencies(depPkgSpec) has rejected for one no-comp dependency
GrandReject(i, j) ==
  /\ pc = "batch"
  /\ AllStarted
  /\ i \in DOMAIN tasks
  /\ tasks[i].pc = "awaitGrand"
  /\ j \in DOMAIN tasks[i].grand
  /\ ~tasks[i].grand[j].got
  /\ toString(tasks[i].grand[j].depPkgSpec) \in failing
  /\ pc' = "threw"
  /\ UNCHANGED <<inputs, others, entryCalls, packageWeightMap, resolvedPackages, queue, weight, tasks,
                 calls, discarded, dropped, cutoffs, contributions>>

\* .filter(({ grandDeps }) => grandDeps.length === 0).map(({ depPkgSpec }) => depPkgSpec)
HasNoDeps(g) == Len(g.grandDeps) = 0
noCompDepsWithNoDeps(grand) == SelectSeq(grand, HasNoDeps)

\* variant: every dependency stays in the list
FilterDeps_KeepAll(deps, grand) == deps

\* deps.filter((dep) => !noCompDepsWithNoDeps.some(noCompDep => noCompDep.name === dep.name))
FilterDeps(deps, grand) ==
  LET gone == {g.depPkgSpec.name : g \in Range(noCompDepsWithNoDeps(grand))}
      Stays(dep) == dep.name \notin gone
  IN SelectSeq(deps, Stays)

\* variant: a no-comp package hands its whole weight to each dependency
NoCompSplit_NoDivide(w, deps) == w

\* variant: a no-comp package keeps a share for itself like any other package
NoCompSplit_KeepsShare(w, deps) == RatDivInt(w, Len(deps) + 1)

\* weight / (deps.length > 0 ? deps.length : 1)
NoCompSplit(w, deps) == RatDivInt(w, IF Len(deps) > 0 THEN Len(deps) ELSE 1)

\* variant: the package's own share is left out of the denominator
CompSplit_NoSelf(w, deps) == RatDivInt(w, IF Len(deps) > 0 THEN Len(deps) ELSE 1)

\* weight / (deps.length + 1)
CompSplit(w, deps) == RatDivInt(w, Len(deps) + 1)

\* variant: the weight already recorded for the name is not read
currentWeight_Forget(m, name) == Zero

\* packageWeightMap.get(name) ?? 0
currentWeight(m, name) == IF MapHas(m, name) THEN MapGet(m, name) ELSE Zero

\* variant: the new weight replaces the recorded one
AddWeight_Overwrite(m, name, w) == MapSet(m, name, w)

\* packageWeightMap.set(name, currentWeight + w)
AddWeight(m, name, w) == MapSet(m, name, RatAdd(currentWeight(m, name), w))

\* variant: the no-comp set is asked for name@version instead of the name
IsNoCompPkg_ByKey(pkgSpec) == toString(pkgSpec) \in noCompList

\* noCompList.has(pkgSpec.name)
IsNoCompPkg(pkgSpec) == pkgSpec.name \in noCompList

\* history: one more weight recorded for a name
Contribute(name, w) == [contributions EXCEPT ![name] = @ (+) SetToBag({w})]

\* queue.push({ packages: deps, weight: splitWeight })
Push(q, deps, splitWeight) == Append(q, [packages |-> deps, weight |-> splitWeight])

\* variant: the comparison is the other way round (shares below the default
\* epsilon are still cut off)
BelowEpsilon_Reversed(splitWeight, eps) ==
  RatLess(eps, splitWeight) \/ RatLess(splitWeight, Rat(1, 100))

\* splitWeight < epsilon
BelowEpsilon(splitWeight, eps) == RatLess(splitWeight, eps)

\* variant: the filter removes the entries from the cached list itself
CacheAfterFilter_InPlace(cache, pkgId, filtered) == MapSet(cache, pkgId, filtered)

\* deps = deps.filter(...): filter returns a new array, the array held by
\* resolvedPackages keeps every entry
CacheAfterFilter(cache, pkgId, filtered) == cache

\* variant: the cutoff reads this.epsilon each time
cutoffEpsilon_Field == thisEpsilon

\* the epsilon of splitWeight < epsilon: the const of the invocation
cutoffEpsilon == epsilon

\* Every lookup of the no-comp dependencies has answered: the callback runs
\* from the filter of the dependency list to its end without another await.
Finish(i) ==
  /\ pc = "batch"
  /\ AllStarted
  /\ i \in DOMAIN tasks
  /\ tasks[i].pc = "awaitGrand"
  /\ \A j \in DOMAIN tasks[i].grand : tasks[i].grand[j].got
  /\ LET pkgSpec == tasks[i].pkgSpec
         deps == FilterDeps(tasks[i].deps, tasks[i].grand)
     IN IF IsNoCompPkg(pkgSpec)
        THEN LET splitWeight == NoCompSplit(weight, deps)
             IN IF BelowEpsilon(splitWeight, cutoffEpsilon)
                THEN /\ discarded' = RatAdd(discarded, weight)
                     /\ cutoffs' = cutoffs \cup {pkgSpec.name}
                     /\ UNCHANGED <<packageWeightMap, queue, dropped, contributions>>
                ELSE /\ queue' = Push(queue, deps, splitWeight)
                     /\ dropped' = IF Len(deps) = 0 THEN RatAdd(dropped, weight) ELSE dropped
                     /\ UNCHANGED <<packageWeightMap, discarded, cutoffs, contributions>>
        ELSE LET splitWeight == CompSplit(weight, deps)
             IN IF BelowEpsilon(splitWeight, cutoffEpsilon)
                THEN /\ packageWeightMap' = AddWeight(packageWeightMap, pkgSpec.name, weight)
                     /\ contributions' = Contribute(pkgSpec.name, weight)
                     /\ cutoffs' = cutoffs \cup {pkgSpec.name}
                     /\ UNCHANGED <<queue, discarded, dropped>>
                ELSE /\ packageWeightMap' = AddWeight(packageWeightMap, pkgSpec.name, splitWeight)
                     /\ contributions' = Contribute(pkgSpec.name, splitWeight)
                     /\ queue' = Push(queue, deps, splitWeight)
                     /\ UNCHANGED <<discarded, dropped, cutoffs>>
  /\ resolvedPackages' = CacheAfterFilter(resolvedPackages, toString(tasks[i].pkgSpec),
                                          FilterDeps(tasks[i].deps, tasks[i].grand))
  /\ tasks' = [tasks EXCEPT ![i].pc = "done"]
  /\ UNCHANGED <<inputs, others, entryCalls, pc, weight, calls>>

Next ==
  \/ Begin
  \/ Pop
  \/ Return
  \/ Join
  \/ \E i \in DOMAIN tasks : StartTask(i)
  \/ \E i \in DOMAIN tasks : DepsReturn(i)
  \/ \E i \in DOMAIN tasks : \E j \in DOMAIN tasks[i].grand : GrandReturn(i, j)
  \/ \E i \in DOMAIN tasks : Finish(i)

Spec == Init /\ [][Next]_vars

\* Every registry call answers and the event loop runs every continuation
\* that is ready.
FairSpec ==
  /\ Spec
  /\ WF_vars(Begin)
  /\ WF_vars(Pop)
  /\ WF_vars(Return)
  /\ WF_vars(Join)
  /\ WF_vars(\E i \in DOMAIN tasks : StartTask(i))
  /\ WF_vars(\E i \in DOMAIN tasks : DepsReturn(i))
  /\ WF_vars(\E i \in DOMAIN tasks : \E j \in DOMAIN tasks[i].grand : GrandReturn(i, j))
  /\ WF_vars(\E i \in DOMAIN tasks : Finish(i))

(***************************************************************************)
(* Any registry pair, any client: unsupported pairs, init, rejections      *)
(***************************************************************************)
InitClient ==
  /\ topLevelPackages \in SeqsUpTo(RawPkgSpecs, MaxTop)
  /\ Ranked(topLevelPackages)
  /\ noCompList = {"react"}
  /\ epsilon = Rat(1, 100)
  /\ registry \in {g \in Registries : /\ g[WAT.str] = <<REACT, MMH2>>
                                       /\ g[REACT.str] = <<MMH2>>
                                       /\ g[MMH2.str] = <<>>}
  /\ Trimmed
  /\ pkgRegId \in PkgRegIds
  /\ failing \in {{}, {REACT.str}, {MMH2.str}}
  /\ Fresh
  /\ Untouched

NextClient ==
  \/ Unsupported
  \/ Next
  \/ \E i \in DOMAIN tasks : DepsReject(i)
  \/ \E i \in DOMAIN tasks : \E j \in DOMAIN tasks[i].grand : GrandReject(i, j)

ClientSpec == InitClient /\ [][NextClient]_vars

(***************************************************************************)
(* The same traversal entered as src/index.js enters it                    *)
(***************************************************************************)
\* src/index.js hands getSpec the dependency object itself, which always
\* parses: the registries with an unparsable dependency are left out
InitJs ==
  /\ Init
  /\ \A k \in Keys : BAD \notin Range(registry[k])

NextJs ==
  \/ BeginJs
  \/ Pop
  \/ Return
  \/ Join
  \/ \E i \in DOMAIN tasks : StartTask(i)
  \/ \E i \in DOMAIN tasks : DepsReturn(i)
  \/ \E i \in DOMAIN tasks : \E j \in DOMAIN tasks[i].grand : GrandReturn(i, j)
  \/ \E i \in DOMAIN tasks : Finish(i)

LegacySpec == InitJs /\ [][NextJs]_vars

(***************************************************************************)
(* Quantities the properties are stated in                                 *)
(***************************************************************************)
RECURSIVE SumOver(_, _)
SumOver(m, S) ==
  IF S = {} THEN Zero
  ELSE LET x == CHOOSE y \in S : TRUE
       IN RatAdd(m[x], SumOver(m, S \ {x}))

\* the sum of all values in the WeightMap
TotalWeight == SumOver(packageWeightMap, DOMAIN packageWeightMap)

\* a queued work item (specs, weight) holds weight for each spec in it
RECURSIVE QueuedMass(_)
QueuedMass(q) ==
  IF q = <<>> THEN Zero
  ELSE RatAdd(RatMulInt(Head(q).weight, Len(Head(q).packages)), QueuedMass(Tail(q)))

\* every callback of the current batch that has not returned holds the batch's weight
InFlightMass == RatMulInt(weight, Cardinality({i \in DOMAIN tasks : tasks[i].pc # "done"}))

Accounted == RatAdd(RatAdd(TotalWeight, discarded), RatAdd(QueuedMass(queue), InFlightMass))

AllResolve == \A i \in DOMAIN topLevelPackages : IsSpec(getSpec(topLevelPackages[i]))

C3_Case ==
  /\ pc = "done"
  /\ Len(topLevelPackages) > 0
  /\ AllResolve
  /\ noCompList = {}
  /\ cutoffs = {}

NoneUnresolved == \A k \in DOMAIN resolvedPackages :
                    \A i \in DOMAIN resolvedPackages[k] :
                      IsSpec(getSpec(toString(resolvedPackages[k][i])))

C5_AtMostOne == RatLeq(TotalWeight, One)

C5_Witness == pc = "done" /\ TotalWeight # Zero /\ RatLess(TotalWeight, One)

(***************************************************************************)
(* C6 - no negative weight, no weight on a no-comp name                    *)
(***************************************************************************)
\* C6: no value of the WeightMap is negative and no key of the WeightMap
\* is a name of the no-comp set, in every state and in the result.
C6_NoNegativeNoNoComp ==
  \A n \in DOMAIN packageWeightMap :
    /\ RatLeq(Zero, packageWeightMap[n])
    /\ n \notin noCompList

\* a no-comp package was processed and passed weight on, others were recorded
C6_Witness ==
  /\ pc = "done"
  /\ "react" \in noCompList
  /\ calls[REACT.str] > 0
  /\ "murmurhash" \in DOMAIN packageWeightMap
  /\ "web-app-thing" \in DOMAIN packageWeightMap

(***************************************************************************)
(* C2 - termination                                                        *)
(***************************************************************************)
\* C2: for every epsilon > 0, every finite dependency graph, every no-comp
\* set and every top-level list, computePackageWeight eventually empties
\* its queue and returns, provided every registry call returns.
C2_Terminates == <>(pc = "done")

(***************************************************************************)
(* C7 - memoization of getDependencies                                     *)
(***************************************************************************)
\* C7: within one invocation getDependencies is called at most once per
\* canonical key, under every interleaving of the tasks of a batch.
C7_AtMostOneCallPerKey == \A k \in Keys : calls[k] <= 1

(***************************************************************************)
(* C8 - additive accumulation                                              *)
(***************************************************************************)
RECURSIVE SumBag(_, _)
SumBag(b, S) ==
  IF S = {} THEN Zero
  ELSE LET x == CHOOSE y \in S : TRUE
       IN RatAdd(RatMulInt(x, CopiesIn(x, b)), SumBag(b, S \ {x}))

\* C8: the WeightMap value of every name is the sum of all the weights
\* recorded for that name, in the same batch or in different batches; no
\* contribution is lost or overwritten.
C8_Additive ==
  \A n \in Names :
    /\ (n \in DOMAIN packageWeightMap) = (contributions[n] # EmptyBag)
    /\ n \in DOMAIN packageWeightMap =>
         packageWeightMap[n] = SumBag(contributions[n], BagToSet(contributions[n]))

C8_Witness ==
  /\ pc = "done"
  /\ BagCardinality(contributions["murmurhash"]) >= 2
  /\ BagCardinality(contributions["js-deep-equals"]) >= 2

(***************************************************************************)
(* C9 - the scenario of the "computes" test                                *)
(***************************************************************************)
ScenarioRegistry ==
  [k \in Keys |->
     CASE k = JDE.str -> <<MMH2>>
       [] k = WAT.str -> <<REACT>>
       [] k = REACT.str -> <<MMH2>>
       [] OTHER -> <<>>]

ScenarioCase(eps) ==
  /\ pc = "done"
  /\ topLevelPackages = <<"js-deep-equals", "web-app-thing@1.0.1">>
  /\ registry = ScenarioRegistry
  /\ noCompList = {"react"}
  /\ epsilon = eps

\* C9: top-level [js-deep-equals, web-app-thing], js-deep-equals ->
\* [murmurhash], web-app-thing -> [react], react -> [murmurhash], murmurhash
\* -> [], no-comp {react}, epsilon 0.01: the result is js-deep-equals =
\* 0.25, web-app-thing = 0.25, murmurhash = 0.5 and react is absent.
C9_Scenario ==
  ScenarioCase(Rat(1, 100)) =>
    /\ DOMAIN packageWeightMap = {"js-deep-equals", "web-app-thing", "murmurhash"}
    /\ packageWeightMap["js-deep-equals"] = Rat(1, 4)
    /\ packageWeightMap["web-app-thing"] = Rat(1, 4)
    /\ packageWeightMap["murmurhash"] = Rat(1, 2)

C9_Witness == ScenarioCase(Rat(1, 100)) /\ calls[REACT.str] = 1

(***************************************************************************)
(* C10 - epsilon cutoff on a compensated package                           *)
(***************************************************************************)
\* callback i returns in this step, for a package outside the no-comp set
\* whose share weight / (filtered deps + 1) is below epsilon
C10_CutoffStep(i) ==
  /\ pc = "batch"
  /\ tasks[i].pc = "awaitGrand"
  /\ i \in DOMAIN tasks'
  /\ tasks'[i].pc = "done"
  /\ tasks[i].pkgSpec.name \notin noCompList
  /\ RatLess(RatDivInt(weight, Len(FilterDeps(tasks[i].deps, tasks[i].grand)) + 1), epsilon)

C10_WholeWeightRecorded(i) ==
  LET name == tasks[i].pkgSpec.name
      before == IF name \in DOMAIN packageWeightMap THEN packageWeightMap[name] ELSE Zero
  IN /\ DOMAIN packageWeightMap' = DOMAIN packageWeightMap \cup {name}
     /\ packageWeightMap'[name] = RatAdd(before, weight)
     /\ \A n \in DOMAIN packageWeightMap \ {name} : packageWeightMap'[n] = packageWeightMap[n]
     /\ queue' = queue

\* C10: when a package outside the no-comp set is processed with weight w
\* and w / (filtered deps + 1) < epsilon, the whole w is added to its entry
\* and no work item is enqueued; with epsilon 0.5 the scenario graph yields
\* js-deep-equals = 0.5, web-app-thing = 0.5 and nothing else.
C10_CompensatedCutoff ==
  /\ [][\A i \in DOMAIN tasks : C10_CutoffStep(i) => C10_WholeWeightRecorded(i)]_vars
  /\ [](ScenarioCase(Rat(1, 2)) =>
          /\ DOMAIN packageWeightMap = {"js-deep-equals", "web-app-thing"}
          /\ packageWeightMap["js-deep-equals"] = Rat(1, 2)
          /\ packageWeightMap["web-app-thing"] = Rat(1, 2))

\* a package with dependencies was cut off below the top level
C10_Witness ==
  /\ pc = "done"
  /\ epsilon = Rat(1, 100)
  /\ "murmurhash" \notin noCompList
  /\ "murmurhash" \in cutoffs
  /\ registry[MMH2.str] # <<>>

(***************************************************************************)
(* C11 - epsilon cutoff on a no-comp package                               *)
(***************************************************************************)
\* callback i returns in this step, for a package of the no-comp set whose
\* share weight / max(1, filtered deps) is below epsilon
C11_CutoffStep(i) ==
  /\ pc = "batch"
  /\ tasks[i].pc = "awaitGrand"
  /\ i \in DOMAIN tasks'
  /\ tasks'[i].pc = "done"
  /\ tasks[i].pkgSpec.name \in noCompList
  /\ LET n == Len(FilterDeps(tasks[i].deps, tasks[i].grand))
     IN RatLess(RatDivInt(weight, IF n > 0 THEN n ELSE 1), epsilon)

\* C11: when a package of the no-comp set is processed with weight w and
\* w / max(1, filtered deps) < epsilon, nothing is recorded in the weight
\* map and no work item is enqueued; a single top-level no-comp package
\* with epsilon 1.1 gives an empty map.
C11_NoCompCutoff ==
  /\ [][\A i \in DOMAIN tasks :
          C11_CutoffStep(i) => packageWeightMap' = packageWeightMap /\ queue' = queue]_vars
  /\ [](/\ pc = "done"
        /\ topLevelPackages = <<"react@0.0.0">>
        /\ "react" \in noCompList
        /\ epsilon = Rat(11, 10)
        => packageWeightMap = <<>>)

\* a no-comp package was cut off below the top level while another package
\* was recorded
C11_Witness ==
  /\ pc = "done"
  /\ epsilon = Rat(1, 2)
  /\ "react" \in cutoffs
  /\ discarded = Rat(1, 2)
  /\ packageWeightMap # <<>>

(***************************************************************************)
(* C12 - a no-comp package without dependencies                            *)
(***************************************************************************)
\* a no-comp package with zero dependencies
C12_Leaf(d) == d.name \in noCompList /\ registry[toString(d)] = <<>>

\* a list as it would be if those packages were not listed at all
C12_NotListed(pkgs) ==
  LET Other(d) == ~C12_Leaf(d)
  IN SelectSeq(pkgs, Other)

\* a dependency list without those packages and without the dependencies
\* that bear the name of one of them
C12_NotNamed(pkgs) ==
  LET gone == {d.name : d \in {e \in Range(pkgs) : C12_Leaf(e)}}
      Other(d) == d.name \notin gone
  IN SelectSeq(pkgs, Other)

\* callback i returns in this step
C12_ReturnStep(i) ==
  /\ pc = "batch"
  /\ tasks[i].pc = "awaitGrand"
  /\ i \in DOMAIN tasks'
  /\ tasks'[i].pc = "done"

\* what callback i hands on when its dependency list counts as kept
C12_HandsOn(i, kept) ==
  LET n == Len(kept)
      share == IF tasks[i].pkgSpec.name \in noCompList
               THEN RatDivInt(weight, IF n > 0 THEN n ELSE 1)
               ELSE RatDivInt(weight, n + 1)
  IN IF RatLess(share, epsilon)
     THEN queue' = queue
     ELSE queue' = Append(queue, [packages |-> kept, weight |-> share])

\* the top-level packages start with the weight they would have without
\* the no-comp packages that have no dependencies
C12_TopLevelStep ==
  LET specs == initialPackageSpecs(topLevelPackages)
      kept == C12_NotListed(specs)
  IN pc = "idle" /\ pc' = "loop" /\ kept # <<>> /\ kept # specs
       => queue'[1].weight = RatDivInt(One, Len(kept))

\* C12 as stated: wherever a no-comp package with zero dependencies appears
\* next to siblings, in the top-level list or in a dependency list, each
\* sibling receives the share it would receive if the package were not
\* listed at all.
C12_NeverCounted ==
  [][/\ C12_TopLevelStep
     /\ \A i \in DOMAIN tasks :
          C12_ReturnStep(i) => C12_HandsOn(i, C12_NotListed(tasks[i].deps))]_vars

\* What the filter does in a dependency list: a no-comp package with zero
\* dependencies is left out, and so is every dependency bearing its name;
\* the dependencies that remain receive the share they would receive if the
\* removed ones were not listed.
C12_NotCountedAsDependency ==
  [][\A i \in DOMAIN tasks :
       C12_ReturnStep(i) => C12_HandsOn(i, C12_NotNamed(tasks[i].deps))]_vars

\* web-app-thing -> [react, murmurhash] with react a no-comp package without
\* dependencies: web-app-thing keeps 1/2, as with [murmurhash] alone
C12_Witness ==
  /\ pc = "done"
  /\ topLevelPackages = <<"web-app-thing@1.0.1">>
  /\ registry[WAT.str] = <<REACT, MMH2>>
  /\ registry[REACT.str] = <<>>
  /\ noCompList = {"react"}
  /\ epsilon = Rat(1, 100)
  /\ packageWeightMap["web-app-thing"] = Rat(1, 2)

(***************************************************************************)
(* C13 - nothing to process                                                *)
(***************************************************************************)
\* the top-level list is empty or holds only strings that are no spec
C13_NoneParses == \A i \in DOMAIN topLevelPackages : topLevelPackages[i] = "react^15"

\* C13: if the top-level list is empty, or every top-level specifier fails
\* to resolve, the invocation runs to its return without throwing, the map
\* stays empty and getDependencies is never called.
C13_EmptyResult ==
  C13_NoneParses =>
    /\ packageWeightMap = <<>>
    /\ \A k \in Keys : calls[k] = 0
    /\ tasks = <<>>
    /\ pc # "threw"
    /\ pc = "done" \/ ENABLED Next

C13_Witness ==
  /\ pc = "done"
  /\ topLevelPackages = <<"react^15", "react^15">>
  /\ packageWeightMap = <<>>

(***************************************************************************)
(* C14 - a top-level specifier that does not resolve                       *)
(***************************************************************************)
\* the number of top-level specifiers that resolve
C14_Resolving == Cardinality({i \in DOMAIN topLevelPackages : getSpec(topLevelPackages[i]) # Invalid})

\* C14: a top-level specifier that fails resolution is excluded from the
\* initial-weight denominator: the traversal starts with the weight
\* 1 / max(1, number of top-level specifiers that resolve) per package, so
\* with one failing and one succeeding specifier the succeeding one is
\* processed with weight 1.
C14_InitialWeight ==
  [][pc = "idle" /\ pc' = "loop"
       => queue'[1].weight = RatDivInt(One, IF C14_Resolving > 0 THEN C14_Resolving ELSE 1)]_vars

(***************************************************************************)
(* C15 - init                                                              *)
(***************************************************************************)
\* C15: if the registry client defines init, the invocation calls it exactly
\* once and before any getSpec or getDependencies call; if the client
\* defines no init, init is not called and the invocation does not fail
\* for it.
C15_InitOnceFirst ==
  LET pkgReg == getSupportedRegistry(pkgRegId)
      inits == {i \in DOMAIN entryCalls : entryCalls[i] = "init"}
  IN /\ pkgReg # Null /\ pkgReg.init =>
          IF pc = "idle"
          THEN entryCalls = <<>> /\ \A k \in Keys : calls[k] = 0
          ELSE inits = {1}
     /\ pkgReg # Null /\ ~pkgReg.init =>
          /\ inits = {}
          /\ pc = "idle" => ENABLED Begin
          /\ failing = {} => pc # "threw"

\* a traversal on the rubygems client has returned weights
C15_Witness ==
  /\ pkgRegId = [language |-> "ruby", registry |-> "rubygems"]
  /\ pc = "done"
  /\ Len(topLevelPackages) = 2
  /\ packageWeightMap # <<>>
  /\ \E k \in Keys : calls[k] > 0

(***************************************************************************)
(* C16 - unsupported registry                                              *)
(***************************************************************************)
\* the pair names no client of this.registries
C16_Pair ==
  pkgRegId \notin {[language |-> "javascript", registry |-> "npm"],
                   [language |-> "ruby", registry |-> "rubygems"]}

\* C16: for an unsupported (language, registry) pair the invocation fails
\* with an error before any traversal: no init, getSpec or getDependencies
\* call is made and no weight map is produced.
C16_UnsupportedThrows ==
  C16_Pair =>
    /\ pc \in {"idle", "threw"}
    /\ pc = "idle" => ENABLED Unsupported /\ ~ENABLED Begin
    /\ entryCalls = <<>>
    /\ \A k \in Keys : calls[k] = 0
    /\ packageWeightMap = <<>>
    /\ queue = <<>>
    /\ tasks = <<>>

C16_Witness ==
  /\ pkgRegId = [language |-> "scala", registry |-> "mitski"]
  /\ pc = "threw"
  /\ topLevelPackages = <<"js-deep-equals", "web-app-thing@1.0.1">>

(***************************************************************************)
(* C19 - a getDependencies call that fails                                 *)
(***************************************************************************)
\* C19: if getDependencies fails for one package, the invocation is not
\* aborted: on a supported registry it never ends with an error.
C19_FailureIsolated == getSupportedRegistry(pkgRegId) # Null => pc # "threw"

(***************************************************************************)
(* C20 - a specifier inside the graph that does not resolve                *)
(***************************************************************************)
\* callback i starts in this step and getSpec throws for its package
C20_ThrowStep(i) ==
  /\ pc = "batch"
  /\ tasks[i].pc = "new"
  /\ i \in DOMAIN tasks'
  /\ tasks'[i].pc # "new"
  /\ getSpec(toString(tasks[i].pkg)) = Invalid

\* the callback has returned; the map, the queue, the cache, the weight of
\* the batch and the other callbacks are as they were
C20_Skipped(i) ==
  /\ tasks'[i].pc = "done"
  /\ packageWeightMap' = packageWeightMap
  /\ queue' = queue
  /\ resolvedPackages' = resolvedPackages
  /\ calls' = calls
  /\ weight' = weight
  /\ pc' = pc
  /\ \A j \in DOMAIN tasks \ {i} : tasks'[j] = tasks[j]

\* the batch is left only when every callback has returned, and every
\* package that parses went through its processing
C20_AllProcessed ==
  pc = "batch" /\ pc' = "loop" =>
    \A j \in DOMAIN tasks :
       /\ tasks[j].pc = "done"
       /\ getSpec(toString(tasks[j].pkg)) # Invalid =>
            tasks[j].pkgSpec = getSpec(toString(tasks[j].pkg))

\* C20: when getSpec throws for a package inside a batch, that package
\* records nothing and enqueues nothing, its weight is not redistributed
\* (the weight of the batch is unchanged) and every sibling of the batch
\* is still processed.
C20_UnresolvableSkipped ==
  [][/\ \A i \in DOMAIN tasks : C20_ThrowStep(i) => C20_Skipped(i)
     /\ C20_AllProcessed]_vars

\* js-deep-equals -> [react^15, murmurhash]: the unparsable dependency was
\* skipped and murmurhash got its share of 1/3
C20_Witness ==
  /\ pc = "done"
  /\ topLevelPackages = <<"js-deep-equals">>
  /\ registry[JDE.str] = <<BAD, MMH2>>
  /\ epsilon = Rat(1, 100)
  /\ noCompList = {}
  /\ dropped = Rat(1, 3)
  /\ "murmurhash" \in DOMAIN packageWeightMap
  /\ packageWeightMap["murmurhash"] = Rat(1, 3)

(***************************************************************************)
(* C17 - raising epsilon                                                   *)
(***************************************************************************)
\* The callbacks of one work item run one after the other, each with every
\* registry answer at hand: the queue and the recorded names after the batch.
RECURSIVE SequentialBatch(_, _, _, _, _)
SequentialBatch(pkgs, w, q, keys, eps) ==
  IF pkgs = <<>> THEN [queue |-> q, keys |-> keys]
  ELSE LET pkgSpec == getSpec(toString(Head(pkgs)))
       IN IF Threw(pkgSpec) THEN SequentialBatch(Tail(pkgs), w, q, keys, eps)
          ELSE LET all == registry[toString(pkgSpec)]
                   ncd == noCompDeps(all)
                   grand == [j \in DOMAIN ncd |->
                               [depPkgSpec |-> ncd[j], got |-> TRUE,
                                grandDeps |-> registry[toString(ncd[j])]]]
                   deps == FilterDeps(all, grand)
                   splitWeight == IF IsNoCompPkg(pkgSpec) THEN NoCompSplit(w, deps)
                                  ELSE CompSplit(w, deps)
               IN SequentialBatch(Tail(pkgs), w,
                    IF BelowEpsilon(splitWeight, eps) THEN q ELSE Push(q, deps, splitWeight),
                    IF IsNoCompPkg(pkgSpec) THEN keys ELSE keys \cup {pkgSpec.name},
                    eps)

\* the while loop over the queue, given up after n work items
RECURSIVE SequentialRun(_, _, _, _)
SequentialRun(q, keys, eps, n) ==
  IF q = <<>> THEN [returned |-> TRUE, keys |-> keys]
  ELSE IF n = 0 THEN [returned |-> FALSE, keys |-> keys]
  ELSE LET item == q[Len(q)]
           after == SequentialBatch(item.packages, item.weight,
                                    SubSeq(q, 1, Len(q) - 1), keys, eps)
       IN SequentialRun(after.queue, after.keys, eps, n - 1)

\* computePackageWeight on the inputs of this invocation, with another epsilon
KeysWith(eps) ==
  LET specs == initialPackageSpecs(topLevelPackages)
  IN SequentialRun(<<[packages |-> specs, weight |-> initialWeight(specs)]>>, {}, eps, MaxItems)

\* C17: for the same graph, top-level list and no-comp set and epsilons
\* e1 <= e2, the keys of the map computed with e2 are a subset of (and at
\* most as many as) the keys of the map computed with e1.  Here e1 is the
\* epsilon of the invocation that has returned, under any interleaving.
C17_EpsilonMonotone ==
  pc = "done" =>
    \A e2 \in Epsilons :
       RatLeq(epsilon, e2) =>
         LET r == KeysWith(e2)
         IN /\ r.returned
            /\ r.keys \subseteq DOMAIN packageWeightMap
            /\ Cardinality(r.keys) <= Cardinality(DOMAIN packageWeightMap)
            /\ e2 = epsilon => r.keys = DOMAIN packageWeightMap

\* epsilon 0.5 keeps some of the keys of epsilon 0.01 and loses others
C17_Witness ==
  /\ pc = "done"
  /\ epsilon = Rat(1, 100)
  /\ KeysWith(Rat(1, 2)).keys \notin {{}, DOMAIN packageWeightMap}

SplitStep(i) ==
  /\ pc = "batch"
  /\ tasks[i].pc = "awaitGrand"
  /\ i \in DOMAIN tasks'
  /\ tasks'[i].pc = "done"

\* the next work item is taken in this step: its packages are processed
\* with its weight
TakenWithItsWeight ==
  pc = "loop" /\ pc' = "batch" =>
    /\ weight' = queue[Len(queue)].weight
    /\ Len(tasks') = Len(queue[Len(queue)].packages)
    /\ \A k \in DOMAIN tasks' : tasks'[k].pkg = queue[Len(queue)].packages[k]

\* C24: when a package outside the no-comp set is processed with weight w,
\* has n filtered dependencies and s = w / (n + 1) >= epsilon, exactly s is
\* added to its entry and exactly one work item (filtered deps, s) is
\* enqueued; its packages are later processed with weight s.
C24_CompensatedSplit ==
  [][/\ \A i \in DOMAIN tasks :
          LET deps == FilterDeps(tasks[i].deps, tasks[i].grand)
              s == RatDivInt(weight, Len(deps) + 1)
              name == tasks[i].pkgSpec.name
              before == IF name \in DOMAIN packageWeightMap THEN packageWeightMap[name] ELSE Zero
          IN SplitStep(i) /\ name \notin noCompList /\ RatLeq(epsilon, s) =>
               /\ DOMAIN packageWeightMap' = DOMAIN packageWeightMap \cup {name}
               /\ packageWeightMap'[name] = RatAdd(before, s)
               /\ \A n \in DOMAIN packageWeightMap \ {name} :
                    packageWeightMap'[n] = packageWeightMap[n]
               /\ queue' = Append(queue, [packages |-> deps, weight |-> s])
     /\ TakenWithItsWeight]_vars

\* js-deep-equals kept 1/2 and its dependency is processed with 1/2
C24_Witness ==
  /\ pc = "batch"
  /\ topLevelPackages = <<"js-deep-equals">>
  /\ packageWeightMap = ("js-deep-equals" :> Rat(1, 2))
  /\ Len(tasks) = 1
  /\ tasks[1].pkg = MMH2
  /\ weight = Rat(1, 2)

\* C25: when a package of the no-comp set is processed with weight w, has n
\* filtered dependencies and s = w / max(1, n) >= epsilon, nothing is
\* recorded and exactly one work item (filtered deps, s) is enqueued: the
\* dependencies get w in total when n >= 1.
C25_NoCompPassThrough ==
  [][\A i \in DOMAIN tasks :
       LET deps == FilterDeps(tasks[i].deps, tasks[i].grand)
           n == Len(deps)
           s == RatDivInt(weight, IF n > 0 THEN n ELSE 1)
       IN SplitStep(i) /\ tasks[i].pkgSpec.name \in noCompList /\ RatLeq(epsilon, s) =>
            /\ packageWeightMap' = packageWeightMap
            /\ queue' = Append(queue, [packages |-> deps, weight |-> s])
            /\ n >= 1 => RatMulInt(s, n) = weight]_vars

\* web-app-thing -> [react], react in the no-comp set: react's dependency is
\* processed with the 1/2 that react was processed with
C25_Witness ==
  /\ pc = "batch"
  /\ topLevelPackages = <<"web-app-thing@1.0.1">>
  /\ "react" \in noCompList
  /\ registry[WAT.str] = <<REACT>>
  /\ registry[REACT.str] = <<MMH2>>
  /\ packageWeightMap = ("web-app-thing" :> Rat(1, 2))
  /\ Len(tasks) = 1
  /\ tasks[1].pkg = MMH2
  /\ weight = Rat(1, 2)

(***************************************************************************)
(* C26 - which dependencies the filter removes                             *)
(***************************************************************************)
\* a dependency of the no-comp set whose own dependency list is empty
C26_Removable(d) == d.name \in noCompList /\ registry[toString(d)] = <<>>

C26_Remaining(deps) ==
  LET Stays(d) == ~C26_Removable(d)
  IN SelectSeq(deps, Stays)

\* C26: when a package is processed, exactly the entries of its dependency
\* list that are no-comp and have an empty own dependency list are removed
\* from the list used for the split; every other entry remains.
C26_ExactFilter ==
  [][\A i \in DOMAIN tasks :
       SplitStep(i) =>
         FilterDeps(tasks[i].deps, tasks[i].grand) = C26_Remaining(tasks[i].deps)]_vars

(***************************************************************************)
(* C27 - decay of the weight                                               *)
(***************************************************************************)
\* C27: whenever processing a package that has one or more dependencies
\* enqueues a work item, the enqueued weight is strictly smaller than the
\* weight the package was processed with, and at most half of it.
C27_GeometricDecay ==
  [][\A i \in DOMAIN tasks :
       SplitStep(i) /\ tasks[i].deps # <<>> /\ Len(queue') = Len(queue) + 1 =>
         LET s == queue'[Len(queue')].weight
         IN RatLess(s, weight) /\ RatLeq(RatMulInt(s, 2), weight)]_vars

(***************************************************************************)
(* C28, C29 - the batches and the queue                                    *)
(***************************************************************************)
\* C28: the next work item is popped only after every callback of the
\* current one has returned; callbacks exist only between a pop and the
\* join that follows it, and every push after the seed is made before
\* that join.
C28_BatchJoin ==
  /\ [](pc # "batch" => tasks = <<>>)
  /\ [][/\ pc = "batch" /\ pc' # "batch" => \A i \in DOMAIN tasks : tasks[i].pc = "done"
        /\ Len(queue') > Len(queue) => pc = "idle" \/ (pc = "batch" /\ pc' = "batch")
        /\ Len(queue') < Len(queue) => pc = "loop" /\ tasks = <<>>]_vars

\* two callbacks of one batch have pushed and the batch is not yet joined
C28_Witness ==
  /\ pc = "batch"
  /\ Len(tasks) = 2
  /\ Len(queue) = 2
  /\ \A i \in DOMAIN tasks : tasks[i].pc = "done"

\* C29: every work item popped is the most recently enqueued one among
\* those in the queue: a push appends at the end, a pop takes the end.
C29_Lifo ==
  [][/\ Len(queue') > Len(queue) => SubSeq(queue', 1, Len(queue)) = queue /\ Len(queue') = Len(queue) + 1
     /\ Len(queue') < Len(queue) =>
          /\ queue' = SubSeq(queue, 1, Len(queue) - 1)
          /\ weight' = queue[Len(queue)].weight
          /\ \A k \in DOMAIN tasks' : tasks'[k].pkg = queue[Len(queue)].packages[k]
     /\ Len(queue') = Len(queue) => queue' = queue]_vars

\* the newer of two work items has just been popped, the older one waits
C29_Witness ==
  /\ pc = "batch"
  /\ Len(queue) = 1
  /\ Cardinality(DOMAIN packageWeightMap) = 2
  /\ tasks # <<>>
  /\ \A i \in DOMAIN tasks : tasks[i].pc = "new"
  /\ weight # queue[1].weight

(***************************************************************************)
(* C30 - the weight map only grows                                         *)
(***************************************************************************)
\* C30: in every step the total of the weight map does not decrease, no
\* entry decreases and no key is removed.
C30_Monotonic ==
  [][/\ DOMAIN packageWeightMap \subseteq DOMAIN packageWeightMap'
     /\ \A n \in DOMAIN packageWeightMap : RatLeq(packageWeightMap[n], packageWeightMap'[n])
     /\ RatLeq(SumOver(packageWeightMap, DOMAIN packageWeightMap),
               SumOver(packageWeightMap', DOMAIN packageWeightMap'))]_vars

\* murmurhash was recorded through two paths with different weights
C30_Witness ==
  /\ pc = "done"
  /\ "murmurhash" \in DOMAIN packageWeightMap
  /\ \E a, b \in DOMAIN contributions["murmurhash"] : RatLess(a, b)

(***************************************************************************)
(* C21 - the order in which the work items are taken                       *)
(***************************************************************************)
\* The callbacks of one work item run one after the other, each with every
\* registry answer at hand: the queue and the weight map after the batch.
RECURSIVE BatchWeights(_, _, _, _, _)
BatchWeights(pkgs, w, q, m, eps) ==
  IF pkgs = <<>> THEN [queue |-> q, map |-> m]
  ELSE LET pkgSpec == getSpec(toString(Head(pkgs)))
       IN IF Threw(pkgSpec) THEN BatchWeights(Tail(pkgs), w, q, m, eps)
          ELSE LET all == registry[toString(pkgSpec)]
                   ncd == noCompDeps(all)
                   grand == [j \in DOMAIN ncd |->
                               [depPkgSpec |-> ncd[j], got |-> TRUE,
                                grandDeps |-> registry[toString(ncd[j])]]]
                   deps == FilterDeps(all, grand)
               IN IF IsNoCompPkg(pkgSpec)
                  THEN LET splitWeight == NoCompSplit(w, deps)
                       IN BatchWeights(Tail(pkgs), w,
                            IF BelowEpsilon(splitWeight, eps) THEN q
                            ELSE Push(q, deps, splitWeight),
                            m, eps)
                  ELSE LET splitWeight == CompSplit(w, deps)
                       IN IF BelowEpsilon(splitWeight, eps)
                          THEN BatchWeights(Tail(pkgs), w, q,
                                            AddWeight(m, pkgSpec.name, w), eps)
                          ELSE BatchWeights(Tail(pkgs), w, Push(q, deps, splitWeight),
                                            AddWeight(m, pkgSpec.name, splitWeight), eps)

\* the while loop with queue.shift() in place of queue.pop(), given up after
\* n work items
RECURSIVE FifoRun(_, _, _, _)
FifoRun(q, m, eps, n) ==
  IF q = <<>> THEN [returned |-> TRUE, map |-> m]
  ELSE IF n = 0 THEN [returned |-> FALSE, map |-> m]
  ELSE LET item == QueuePop_Shift(q).item
           after == BatchWeights(item.packages, item.weight, QueuePop_Shift(q).rest, m, eps)
       IN FifoRun(after.queue, after.map, eps, n - 1)

\* computePackageWeight on the inputs of this invocation, first in first out
WeightsFifo ==
  LET specs == initialPackageSpecs(topLevelPackages)
  IN FifoRun(<<[packages |-> specs, weight |-> initialWeight(specs)]>>, <<>>, epsilon, MaxItems)

\* C21: the weight map returned by the traversal, which takes the work items
\* last in first out, is the map the traversal returns when it takes them
\* first in first out.
C21_OrderIndependent ==
  pc = "done" => WeightsFifo.returned /\ WeightsFifo.map = packageWeightMap

\* a traversal in which two work items waited in the queue together
C21_Witness ==
  /\ pc = "done"
  /\ topLevelPackages = <<"js-deep-equals", "web-app-thing@1.0.1">>
  /\ registry[JDE.str] = <<MMH2>>
  /\ registry[WAT.str] = <<REACT, MMH2>>
  /\ registry[REACT.str] = <<MMH2>>
  /\ noCompList = {}
  /\ epsilon = Rat(1, 100)
  /\ Cardinality(DOMAIN packageWeightMap) = 4

(***************************************************************************)
(* extractDependenciesFromManifests                                        *)
(***************************************************************************)
\* the variables of a computePackageWeight invocation
computation == <<pc, packageWeightMap, resolvedPackages, queue, weight, tasks, calls,
                 discarded, dropped, cutoffs, contributions, entryCalls>>

\* no computePackageWeight invocation is under way
NoComputation ==
  /\ topLevelPackages = <<>>
  /\ noCompList = {}
  /\ epsilon = Rat(1, 100)
  /\ registry = [k \in Keys |-> <<>>]
  /\ pkgRegId = [language |-> "javascript", registry |-> "npm"]
  /\ failing = {}
  /\ Fresh

\* manifest files: three package.json files, a Gemfile and a file that is neither
PackageJsonStandard == "{ dependencies: { standard: 12.0.1 } }"
PackageJsonJde == "{ dependencies: { js-deep-equals: 1.1.1 } }"
PackageJsonIrrelevant == "{ dependencies: { something-irrelevant: 1.1.1 } }"
Gemfile == "gem 'rails'"
Asdf == "asdf"

\* the manifests of the test, and a Gemfile of the second supported pair
SupportedManifests ==
  {[language |-> "javascript", registry |-> "npm", manifest |-> PackageJsonStandard],
   [language |-> "javascript", registry |-> "npm", manifest |-> PackageJsonJde],
   [language |-> "javascript", registry |-> "the-new-javascript-registry",
    manifest |-> PackageJsonIrrelevant],
   [language |-> "php", registry |-> "idk", manifest |-> Asdf],
   [language |-> "ruby", registry |-> "rubygems", manifest |-> Gemfile]}

\* pkgReg.extractDependenciesFromManifest({ manifest }): the npm client lists
\* name@spec for the dependencies of the parsed JSON and [] when it does not
\* parse; the rubygems client keeps the lines that start with gem
ClientExtract(pkgReg, manifest) ==
  IF pkgReg = NpmDependencyResolver
  THEN CASE manifest = PackageJsonStandard -> <<"standard@12.0.1">>
         [] manifest = PackageJsonJde -> <<"js-deep-equals@1.1.1">>
         [] manifest = PackageJsonIrrelevant -> <<"something-irrelevant@1.1.1">>
         [] OTHER -> <<>>
  ELSE CASE manifest = Gemfile -> <<"gem 'rails'">>
         [] OTHER -> <<>>

extractDependenciesFromManifest(input) ==
  LET pkgReg == getSupportedRegistry([language |-> input.language,
                                      registry |-> input.registry])
  IN IF pkgReg = Null THEN <<>> ELSE ClientExtract(pkgReg, input.manifest)

\* manifests.map(({ language, registry, manifest }) => ({ language, registry, deps }))
extractedDeps(ms) ==
  [i \in DOMAIN ms |-> [language |-> ms[i].language,
                        registry |-> ms[i].registry,
                        deps |-> extractDependenciesFromManifest(ms[i])]]

\* groups and its values are Maps whose order matters: each is the sequence
\* of its [key, value] entries in insertion order.
GroupsHas(m, key) == \E i \in DOMAIN m : m[i].key = key

GroupsIndex(m, key) == CHOOSE i \in DOMAIN m : m[i].key = key

\* variant: languageGroup.set(registry, deps), the later manifest wins
GroupDeps_Replace(registryGroup, deps) == deps

\* registryGroup.concat(deps)
GroupDeps(registryGroup, deps) == registryGroup \o deps

\* one round of the grouping loop
GroupsSet(groups, e) ==
  IF ~GroupsHas(groups, e.language)
  THEN Append(groups, [key |-> e.language,
                       value |-> <<[key |-> e.registry, value |-> e.deps]>>])
  ELSE LET li == GroupsIndex(groups, e.language)
           languageGroup == groups[li].value
       IN IF ~GroupsHas(languageGroup, e.registry)
          THEN [groups EXCEPT ![li].value =
                  Append(languageGroup, [key |-> e.registry, value |-> e.deps])]
          ELSE LET ri == GroupsIndex(languageGroup, e.registry)
               IN [groups EXCEPT ![li].value[ri].value =
                     GroupDeps(languageGroup[ri].value, e.deps)]

RECURSIVE Grouped(_, _)
Grouped(groups, es) ==
  IF es = <<>> THEN groups
  ELSE Grouped(GroupsSet(groups, Head(es)), Tail(es))

\* for (const [lang, registries] of groups.entries())
\*   for (const [reg, deps] of registries.entries()) push
RECURSIVE depsGroupedByLangReg(_)
depsGroupedByLangReg(groups) ==
  IF groups = <<>> THEN <<>>
  ELSE LET lang == Head(groups).key
           regs == Head(groups).value
       IN [i \in DOMAIN regs |-> [language |-> lang,
                                  registry |-> regs[i].key,
                                  deps |-> regs[i].value]]
          \o depsGroupedByLangReg(Tail(groups))

extractDependenciesFromManifests(ms) ==
  depsGroupedByLangReg(Grouped(<<>>, extractedDeps(ms)))

\* one call of resolver.extractDependenciesFromManifests(manifests)
Extract ==
  /\ ~extraction.called
  /\ extraction' = [called |-> TRUE,
                    result |-> extractDependenciesFromManifests(manifests)]
  /\ UNCHANGED <<inputs, computation, manifests, versionsCache, resolutions, apart>>

InitManifests ==
  /\ NoComputation
  /\ manifests \in SeqsUpTo(SupportedManifests, MaxManifests)
  /\ extraction = [called |-> FALSE, result |-> <<>>]
  /\ versionsCache = <<>>
  /\ resolutions = <<>>
  /\ reresolution = [stage |-> "none", input |-> [from |-> "", name |-> "", text |-> <<>>],
                     spec |-> NoGemSpec, again |-> NoGemSpec]
  /\ other = NoOther

NextManifests == Extract

ManifestSpec == InitManifests /\ [][NextManifests]_vars

(***************************************************************************)
(* C22 - the entries extractDependenciesFromManifests returns              *)
(***************************************************************************)
C22_Pair(e) == <<e.language, e.registry>>

\* where a pair, and a language, first appear in the input
C22_FirstPair(pair) ==
  CHOOSE i \in DOMAIN manifests :
    /\ C22_Pair(manifests[i]) = pair
    /\ \A j \in 1..(i - 1) : C22_Pair(manifests[j]) # pair

C22_FirstLanguage(language) ==
  CHOOSE i \in DOMAIN manifests :
    /\ manifests[i].language = language
    /\ \A j \in 1..(i - 1) : manifests[j].language # language

\* the deps of every manifest of the pair, concatenated in input order
RECURSIVE C22_DepsOf(_, _)
C22_DepsOf(pair, ms) ==
  IF ms = <<>> THEN <<>>
  ELSE (IF C22_Pair(Head(ms)) = pair
        THEN extractDependenciesFromManifest(Head(ms)) ELSE <<>>)
       \o C22_DepsOf(pair, Tail(ms))

C22_Supported(e) ==
  /\ e.language \in DOMAIN registries
  /\ e.registry \in DOMAIN registries[e.language]

\* one entry per distinct pair of the input, each with the concatenated
\* deps of its manifests, and no deps for a pair without a client
C22_OnePerPair(r) ==
  /\ {C22_Pair(r[i]) : i \in DOMAIN r} = {C22_Pair(manifests[i]) : i \in DOMAIN manifests}
  /\ \A i, j \in DOMAIN r : i # j => C22_Pair(r[i]) # C22_Pair(r[j])
  /\ \A i \in DOMAIN r : r[i].deps = C22_DepsOf(C22_Pair(r[i]), manifests)
  /\ \A i \in DOMAIN r : ~C22_Supported(r[i]) => r[i].deps = <<>>

\* C22 as stated: extractDependenciesFromManifests returns exactly one entry
\* per distinct (language, registry) pair of the input, in order of first
\* appearance of the pairs, with the concatenated deps of the pair's
\* manifests and an empty list for a pair without a client.
C22_InOrderOfFirstAppearance ==
  extraction.called =>
    LET r == extraction.result
    IN /\ C22_OnePerPair(r)
       /\ \A i, j \in DOMAIN r :
            i < j => C22_FirstPair(C22_Pair(r[i])) < C22_FirstPair(C22_Pair(r[j]))

\* C22 (amended): extractDependenciesFromManifests returns exactly one entry
\* per distinct (language, registry) pair of the input, with the
\* concatenated deps of the pair's manifests and an empty list for a pair
\* without a client; the entries of one language are adjacent, the
\* languages in order of their first appearance and the registries of a
\* language in order of their first appearance.
C22_GroupedByLanguage ==
  extraction.called =>
    LET r == extraction.result
    IN /\ C22_OnePerPair(r)
       /\ \A i, j \in DOMAIN r :
            i < j =>
              \/ C22_FirstLanguage(r[i].language) < C22_FirstLanguage(r[j].language)
              \/ /\ r[i].language = r[j].language
                 /\ C22_FirstPair(C22_Pair(r[i])) < C22_FirstPair(C22_Pair(r[j]))

\* two manifests of one pair were concatenated, a pair without a client
\* got an empty list, and a later pair of the first language came before
\* the pair of a second language
C22_Witness ==
  /\ extraction.called
  /\ \E i \in DOMAIN extraction.result : Len(extraction.result[i].deps) = 2
  /\ \E i \in DOMAIN extraction.result : ~C22_Supported(extraction.result[i])
  /\ \E i, j \in DOMAIN extraction.result :
       /\ i < j
       /\ C22_FirstPair(C22_Pair(extraction.result[i]))
            > C22_FirstPair(C22_Pair(extraction.result[j]))

(***************************************************************************)
(* RubyGemsDependencyResolver: init and resolve (src/rubygems/index.ts)    *)
(***************************************************************************)
\* the releases the registry knows, oldest first, and a version none of them is
VersionRank(v) ==
  CASE v = "3.0.0" -> 0
    [] v = "3.1.0" -> 1
    [] v = "3.1.2" -> 2
    [] v = "3.1.3" -> 3
    [] OTHER -> 4

\* compare-versions: -1, 0 or 1
compareVersions(a, b) ==
  IF VersionRank(a) < VersionRank(b) THEN -1
  ELSE IF VersionRank(a) = VersionRank(b) THEN 0
  ELSE 1

\* what getSpec makes of gem 'rubocop'; gem 'rubocop', '>= 3.0.0';
\* gem 'rubocop', '>= 3.1.2'; gem 'rubocop', '= 3.1.0'; gem 'rubocop', '> 3.1.3'
\* and gem 'rails'
GemSpecs ==
  {[name |-> "rubocop", operator |-> "=", versionSpec |-> "latest"],
   [name |-> "rubocop", operator |-> ">=", versionSpec |-> "3.0.0"],
   [name |-> "rubocop", operator |-> ">=", versionSpec |-> "3.1.2"],
   [name |-> "rubocop", operator |-> "=", versionSpec |-> "3.1.0"],
   [name |-> "rubocop", operator |-> ">", versionSpec |-> "3.1.3"],
   [name |-> "rails", operator |-> "=", versionSpec |-> "latest"]}

GemNames == {s.name : s \in GemSpecs}

\* what this.got answers: it rejects, or resolves with a body of release numbers
Responses ==
  {[ok |-> FALSE, body |-> <<>>],
   [ok |-> TRUE, body |-> <<>>],
   [ok |-> TRUE, body |-> <<"3.1.0", "3.1.3", "3.1.2">>]}

\* .sort(compareVersions)
RECURSIVE SortVersions(_)
SortVersions(vs) ==
  IF vs = <<>> THEN <<>>
  ELSE LET v == Head(vs)
           Before(x) == compareVersions(x, v) <= 0
           After(x) == compareVersions(x, v) > 0
           rest == SortVersions(Tail(vs))
       IN SelectSeq(rest, Before) \o <<v>> \o SelectSeq(rest, After)

\* .reverse()
Reverse(s) == [i \in DOMAIN s |-> s[Len(s) + 1 - i]]

\* the releases sorted greatest to least
releasesRes(body) == Reverse(SortVersions(body))

\* operator === '==' || operator === '=', and a version that is not latest
IsExact(pkgSpec) ==
  pkgSpec.operator \in {"==", "="} /\ pkgSpec.versionSpec # "latest"

\* the test of releases.find for an operator
Satisfies(operator, rel, version) ==
  CASE operator = "!=" -> compareVersions(rel, version) # 0
    [] operator = ">=" -> compareVersions(rel, version) >= 0
    [] operator = ">" -> compareVersions(rel, version) > 0
    [] operator = "<=" -> compareVersions(rel, version) <= 0
    [] operator = "<" -> compareVersions(rel, version) < 0
    [] OTHER -> FALSE

\* what resolve returns from a release list: a version, or it throws
\* ('No releases found', 'no version release that satisfies requirements')
Release(pkgSpec, releases) ==
  IF releases = <<>> THEN [threw |-> TRUE, version |-> ""]
  ELSE IF pkgSpec.versionSpec = "latest" THEN [threw |-> FALSE, version |-> releases[1]]
  ELSE LET found == {i \in DOMAIN releases :
                       Satisfies(pkgSpec.operator, releases[i], pkgSpec.versionSpec)}
       IN IF found = {} THEN [threw |-> TRUE, version |-> ""]
          ELSE [threw |-> FALSE,
                version |-> releases[CHOOSE i \in found : \A j \in found : i <= j]]

\* variant: init keeps the versions it has
RubyGemsInit_KeepsCache ==
  /\ versionsCache' = versionsCache
  /\ resolutions' = <<>>
  /\ UNCHANGED <<inputs, computation, manifests, extraction, apart>>

\* init(): this.versionsCache = new Map()
RubyGemsInit ==
  /\ versionsCache' = <<>>
  /\ resolutions' = <<>>
  /\ UNCHANGED <<inputs, computation, manifests, extraction, apart>>

\* one resolve(pkgSpec) from its call to its return, the registry answering
\* the request (if one is made) with response
Resolve(pkgSpec, response) ==
  /\ Len(resolutions) < MaxResolves
  /\ LET name == pkgSpec.name
         requested == ~IsExact(pkgSpec) /\ name \notin DOMAIN versionsCache
         answered == requested /\ response.ok
         cache == IF answered THEN (name :> releasesRes(response.body)) @@ versionsCache
                  ELSE versionsCache
         returned == IF IsExact(pkgSpec)
                       THEN [threw |-> FALSE, version |-> pkgSpec.versionSpec]
                     ELSE IF requested /\ ~response.ok
                       THEN [threw |-> TRUE, version |-> ""]
                     ELSE Release(pkgSpec, cache[name])
     IN /\ versionsCache' = cache
        /\ resolutions' = Append(resolutions,
                                 [spec |-> pkgSpec, requested |-> requested,
                                  answered |-> answered, threw |-> returned.threw,
                                  version |-> returned.version])
  /\ UNCHANGED <<inputs, computation, manifests, extraction, apart>>

InitRubyGems ==
  /\ NoComputation
  /\ Untouched

NextRubyGems ==
  \/ RubyGemsInit
  \/ \E pkgSpec \in GemSpecs : \E response \in Responses : Resolve(pkgSpec, response)

RubyGemsSpec == InitRubyGems /\ [][NextRubyGems]_vars

(***************************************************************************)
(* C23 - the versions cache                                                *)
(***************************************************************************)
\* the resolve calls since the last init that asked the registry about a
\* name, and those of them that got an answer
C23_Requests(name) ==
  {i \in DOMAIN resolutions : resolutions[i].requested /\ resolutions[i].spec.name = name}

C23_Answered(name) ==
  {i \in DOMAIN resolutions : resolutions[i].answered /\ resolutions[i].spec.name = name}

\* C23 as stated: between two init() calls the sequential resolutions of
\* specs with one gem name issue at most one versions-list request for that
\* name, and after init() the cache is empty.
C23_OneRequestPerName ==
  /\ \A name \in GemNames : Cardinality(C23_Requests(name)) <= 1
  /\ resolutions = <<>> => versionsCache = <<>>

\* C23 (amended): between two init() calls a resolution issues the
\* versions-list request exactly when its spec is not an exact-version spec
\* and no earlier resolution of that name had its request answered; so at
\* most one request per name is answered, the cache holds exactly the names
\* with an answered request, and a later resolution of such a name is
\* served from the cache.  After init() the cache is empty.
C23_OneAnsweredRequestPerName ==
  /\ \A i \in DOMAIN resolutions :
       resolutions[i].requested <=>
         /\ ~IsExact(resolutions[i].spec)
         /\ \A j \in 1..(i - 1) : j \notin C23_Answered(resolutions[i].spec.name)
  /\ \A name \in GemNames : Cardinality(C23_Answered(name)) <= 1
  /\ DOMAIN versionsCache = {name \in GemNames : C23_Answered(name) # {}}
  /\ resolutions = <<>> => versionsCache = <<>>

\* rubocop was resolved twice since the last init: the first resolution
\* asked the registry and got the releases, the second one did not ask
\* and returned the greatest release
C23_Witness ==
  /\ Len(resolutions) >= 2
  /\ resolutions[1].spec.name = "rubocop" /\ resolutions[1].answered
  /\ resolutions[2].spec.name = "rubocop" /\ ~IsExact(resolutions[2].spec)
  /\ ~resolutions[2].requested
  /\ ~resolutions[2].threw /\ resolutions[2].version = "3.1.3"

(***************************************************************************)
(* C38 - the weights in the queue                                          *)
(***************************************************************************)
\* C38: every work item in the queue has a strictly positive weight, and
\* every work item enqueued after the seed has a weight greater than or
\* equal to epsilon: a weight below epsilon is only ever put into the queue
\* by the step that seeds it.
C38_EnqueuedAtLeastEpsilon ==
  [][\A k \in DOMAIN queue' :
       /\ RatLess(Zero, queue'[k].weight)
       /\ RatLess(queue'[k].weight, epsilon) => pc = "idle" /\ Len(queue') = 1]_vars

\* two work items enqueued after the seed wait in the queue
C38_Witness ==
  /\ pc = "batch"
  /\ Len(queue) >= 2
  /\ \A k \in DOMAIN queue : RatLeq(epsilon, queue[k].weight)

(***************************************************************************)
(* C37 - the dependency cache and the filter                               *)
(***************************************************************************)
\* C37: every entry of the dependency cache is the full list getDependencies
\* returned for its key, before and after the packages that use it are
\* processed; no step removes a key or changes an entry.
C37_CacheKeepsFullList ==
  [][/\ \A k \in DOMAIN resolvedPackages' : resolvedPackages'[k] = registry[k]
     /\ \A k \in DOMAIN resolvedPackages :
          k \in DOMAIN resolvedPackages' /\ resolvedPackages'[k] = resolvedPackages[k]]_vars

\* a callback has finished whose filter removed a dependency from the list
\* it split its weight over, and the cache still holds the list it fetched
C37_Witness ==
  \E i \in DOMAIN tasks :
     /\ tasks[i].pc = "done"
     /\ tasks[i].pkgSpec # Invalid
     /\ Len(FilterDeps(tasks[i].deps, tasks[i].grand)) < Len(tasks[i].deps)
     /\ toString(tasks[i].pkgSpec) \in DOMAIN resolvedPackages
     /\ resolvedPackages[toString(tasks[i].pkgSpec)] = tasks[i].deps

(***************************************************************************)
(* C34 - the order in which the registry calls complete                    *)
(***************************************************************************)
\* the while loop with the callbacks of each work item run one after the
\* other in list order, given up after n work items
RECURSIVE LifoRun(_, _, _, _)
LifoRun(q, m, eps, n) ==
  IF q = <<>> THEN [returned |-> TRUE, map |-> m]
  ELSE IF n = 0 THEN [returned |-> FALSE, map |-> m]
  ELSE LET item == QueuePop(q).item
           after == BatchWeights(item.packages, item.weight, QueuePop(q).rest, m, eps)
       IN LifoRun(after.queue, after.map, eps, n - 1)

\* computePackageWeight on the inputs of this invocation, every registry
\* call answered as soon as it is made
WeightsInListOrder ==
  LET specs == initialPackageSpecs(topLevelPackages)
  IN LifoRun(<<[packages |-> specs, weight |-> initialWeight(specs)]>>, <<>>, epsilon, MaxItems)

\* C34: whatever the order in which the registry calls of the callbacks of
\* each batch complete, the map the invocation returns is the map it
\* returns when every callback runs to its end before the next one starts.
C34_InterleavingDeterminism ==
  pc = "done" => WeightsInListOrder.returned /\ WeightsInListOrder.map = packageWeightMap

\* an invocation has returned in which two callbacks of one batch asked the
\* registry for the same key before either answer came back, and a name
\* got contributions from more than one callback
C34_Witness ==
  /\ pc = "done"
  /\ \E k \in Keys : calls[k] >= 2
  /\ \E n \in Names : BagCardinality(contributions[n]) >= 2

(***************************************************************************)
(* The rubygems client of src/rubygems/index.js                            *)
(***************************************************************************)
\* one resolve(pkgSpec) of src/rubygems/index.js from its call to its return:
\* for version latest it returns releases.shift(), which takes the first
\* release out of the list the cache holds
ResolveJs(pkgSpec, response) ==
  /\ Len(resolutions) < MaxResolves
  /\ LET name == pkgSpec.name
         requested == ~IsExact(pkgSpec) /\ name \notin DOMAIN versionsCache
         answered == requested /\ response.ok
         cache == IF answered THEN (name :> releasesRes(response.body)) @@ versionsCache
                  ELSE versionsCache
         returned == IF IsExact(pkgSpec)
                       THEN [threw |-> FALSE, version |-> pkgSpec.versionSpec]
                     ELSE IF requested /\ ~response.ok
                       THEN [threw |-> TRUE, version |-> ""]
                     ELSE Release(pkgSpec, cache[name])
         shifted == /\ ~IsExact(pkgSpec)
                    /\ ~(requested /\ ~response.ok)
                    /\ pkgSpec.versionSpec = "latest"
                    /\ cache[name] # <<>>
     IN /\ versionsCache' = IF shifted THEN [cache EXCEPT ![name] = Tail(@)] ELSE cache
        /\ resolutions' = Append(resolutions,
                                 [spec |-> pkgSpec, requested |-> requested,
                                  answered |-> answered, threw |-> returned.threw,
                                  version |-> returned.version])
  /\ UNCHANGED <<inputs, computation, manifests, extraction, apart>>

NextRubyGemsJs ==
  \/ RubyGemsInit
  \/ \E pkgSpec \in GemSpecs : \E response \in Responses : ResolveJs(pkgSpec, response)

RubyGemsJsSpec == InitRubyGems /\ [][NextRubyGemsJs]_vars

(***************************************************************************)
(* C36 - resolve and the cached release list                               *)
(***************************************************************************)
\* C36: a resolve call leaves the release list the cache holds for a name as
\* it is, and of two resolutions of one latest spec between two init calls,
\* the first of which found or got the release list, the second returns
\* what the first returned.
C36_CacheUnchanged ==
  [][resolutions' # <<>> =>
       /\ \A name \in DOMAIN versionsCache :
            name \in DOMAIN versionsCache' /\ versionsCache'[name] = versionsCache[name]
       /\ \A i, j \in DOMAIN resolutions' :
            /\ i < j
            /\ resolutions'[i].spec = resolutions'[j].spec
            /\ resolutions'[i].spec.versionSpec = "latest"
            /\ resolutions'[i].requested => resolutions'[i].answered
            => /\ resolutions'[j].threw = resolutions'[i].threw
               /\ resolutions'[j].version = resolutions'[i].version]_vars

\* gem 'rubocop' was resolved twice from one answer of the registry
C36_Witness ==
  /\ Len(resolutions) >= 2
  /\ resolutions[1].spec = [name |-> "rubocop", operator |-> "=", versionSpec |-> "latest"]
  /\ resolutions[1].answered /\ ~resolutions[1].threw
  /\ resolutions[2].spec = resolutions[1].spec

(***************************************************************************)
(* getSpec and toString of the rubygems client (src/src/rubygems/index.ts) *)
(***************************************************************************)
\* A string is the sequence of its pieces: a word, a version, an operator,
\* a blank, a quote, a comma or an at sign.  The string operations of the
\* client act at the borders of these pieces.
Blank == " "
Quotes == {"'", "\""}
Operators == {"==", "=", ">=", ">", "<=", "<", "~>", "!="}

\* [a-z0-9.]+
IsWord(t) == t \notin Quotes \cup Operators \cup {Blank, ",", "@", "3.0.18,"}

\* pkg.split(','): the pieces before the first comma, and those between the
\* first and the second (undefined when there is no comma)
BeforeComma(s) ==
  IF \E i \in DOMAIN s : s[i] = ","
  THEN SubSeq(s, 1, (CHOOSE i \in DOMAIN s : s[i] = "," /\ \A j \in 1..(i - 1) : s[j] # ",") - 1)
  ELSE s

HasComma(s) == \E i \in DOMAIN s : s[i] = ","

AfterComma(s) ==
  LET i == CHOOSE k \in DOMAIN s : s[k] = "," /\ \A j \in 1..(k - 1) : s[j] # ","
  IN BeforeComma(SubSeq(s, i + 1, Len(s)))

\* .replace('gem', ''): the first gem goes
RemoveFirst(s, t) ==
  IF \E i \in DOMAIN s : s[i] = t
  THEN LET i == CHOOSE k \in DOMAIN s : s[k] = t /\ \A j \in 1..(k - 1) : s[j] # t
       IN SubSeq(s, 1, i - 1) \o SubSeq(s, i + 1, Len(s))
  ELSE s

\* .trim()
RECURSIVE Trim(_)
Trim(s) ==
  IF s = <<>> THEN s
  ELSE IF Head(s) = Blank THEN Trim(Tail(s))
  ELSE IF s[Len(s)] = Blank THEN Trim(SubSeq(s, 1, Len(s) - 1))
  ELSE s

\* .replace(/'/g, '').replace(/"/g, '')
Unquote(s) ==
  LET Kept(t) == t \notin Quotes
  IN SelectSeq(s, Kept)

\* ver.trim().match(/^('|")(==|=|>=|>|<=|<|~>|!=)?\s*([a-z0-9.]+)('|")$/):
\* whether it matches, and groups 2 and 3
MatchVersion(ver) ==
  LET v == Trim(ver)
      n == Len(v)
      quoted == n >= 3 /\ v[1] \in Quotes /\ v[n] \in Quotes /\ IsWord(v[n - 1])
      inner == IF quoted THEN SubSeq(v, 2, n - 2) ELSE <<>>
      hasOp == inner # <<>> /\ Head(inner) \in Operators
      blanks == IF hasOp THEN Tail(inner) ELSE inner
  IN IF quoted /\ \A i \in DOMAIN blanks : blanks[i] = Blank
     THEN [matched |-> TRUE, operator |-> IF hasOp THEN Head(inner) ELSE "=",
           version |-> v[n - 1]]
     ELSE [matched |-> FALSE, operator |-> "=", version |-> "latest"]

\* RubyGemsDependencyResolver.getSpec(pkg); str is what toString() returns
gemGetSpec(pkg) ==
  LET name == Unquote(Trim(RemoveFirst(BeforeComma(pkg), "gem")))
  IN IF ~HasComma(pkg) \/ AfterComma(pkg) = <<>>
     THEN [name |-> name, operator |-> "=", versionSpec |-> "latest",
           str |-> name \o <<"@">>]
     ELSE LET m == MatchVersion(AfterComma(pkg))
          IN [name |-> name, operator |-> m.operator, versionSpec |-> m.version,
              str |-> name \o <<"@", m.operator, m.version>>]

\* dep.requirements.split(' ')
RECURSIVE SplitBlank(_)
SplitBlank(s) ==
  IF s = <<>> THEN <<>>
  ELSE IF Head(s) = Blank THEN SplitBlank(Tail(s))
  ELSE <<Head(s)>> \o SplitBlank(Tail(s))

\* the spec getDependencies makes of { name, requirements }
gemDepSpec(name, requirements) ==
  LET versionSplit == SplitBlank(requirements)
      n == Len(versionSplit)
      versionSpec == IF n >= 1 THEN versionSplit[n] ELSE "latest"
      operator == IF n >= 2 THEN versionSplit[n - 1] ELSE "="
  IN [name |-> <<name>>, operator |-> operator, versionSpec |-> versionSpec,
      str |-> <<name, "@", operator, versionSpec>>]

GemWords == {"rubocop", "rails"}
GemVersions == {"3.0.0", "3.7"}

\* the lines of a Gemfile: gem 'rubocop' / gem "rubocop", with no version,
\* a version, or an operator and a version
GemfileLines ==
  {<<"gem", Blank, q, n, q>> : q \in Quotes, n \in GemWords}
  \cup {<<"gem", Blank, q, n, q, ",", Blank, q, v, q>> :
          q \in Quotes, n \in GemWords, v \in GemVersions}
  \cup {<<"gem", Blank, q, n, q, ",", Blank, q, o, Blank, v, q>> :
          q \in Quotes, n \in GemWords, v \in GemVersions,
          o \in {"=", ">=", "~>", "!=", "<"}}

\* the dependencies a rubygems.org manifest lists
GemRequirements ==
  {<<"=", Blank, "3.0.18">>, <<">=", Blank, "3.0.18,", Blank, "<", Blank, "4.0">>,
   <<">=", Blank, "0">>, <<>>}

ReResolveInputs ==
  {[from |-> "manifest", name |-> "", text |-> l] : l \in GemfileLines}
  \cup {[from |-> "registry", name |-> n, text |-> r] : n \in GemWords, r \in GemRequirements}

\* the client produces a spec: getSpec on a raw specifier, or an element of
\* a getDependencies result
Produce ==
  /\ reresolution.stage = "input"
  /\ reresolution' = [reresolution EXCEPT
                        !.stage = "spec",
                        !.spec = IF reresolution.input.from = "manifest"
                                 THEN gemGetSpec(reresolution.input.text)
                                 ELSE gemDepSpec(reresolution.input.name,
                                                 reresolution.input.text)]
  /\ UNCHANGED <<inputs, computation, manifests, extraction, versionsCache, resolutions,
               thisEpsilon, other>>

\* pkgSpec = pkgReg.getSpec(pkg.toString())
ReResolve ==
  /\ reresolution.stage = "spec"
  /\ reresolution' = [reresolution EXCEPT
                        !.stage = "again",
                        !.again = gemGetSpec(reresolution.spec.str)]
  /\ UNCHANGED <<inputs, computation, manifests, extraction, versionsCache, resolutions,
               thisEpsilon, other>>

InitReResolve ==
  /\ NoComputation
  /\ manifests = <<>>
  /\ extraction = [called |-> FALSE, result |-> <<>>]
  /\ versionsCache = <<>>
  /\ resolutions = <<>>
  /\ \E input \in ReResolveInputs :
       reresolution = [stage |-> "input", input |-> input,
                       spec |-> NoGemSpec, again |-> NoGemSpec]
  /\ other = NoOther

NextReResolve == Produce \/ ReResolve

ReResolveSpec == InitReResolve /\ [][NextReResolve]_vars

(***************************************************************************)
(* C32 - getSpec of the toString() of a spec                               *)
(***************************************************************************)
\* C32: for every spec s a client produced, getSpec(s.toString()) has the
\* name of s and the toString() of s.
C32_ReResolutionIdempotent ==
  reresolution.stage = "again" =>
    /\ reresolution.again.name = reresolution.spec.name
    /\ reresolution.again.str = reresolution.spec.str

\* what the first getSpec of a line does: gem 'rubocop', '>= 3.0.0' gives
\* the name rubocop, the operator >= and the version 3.0.0
C32_Parsed ==
  /\ reresolution.stage = "again"
  /\ reresolution.input.text = <<"gem", Blank, "'", "rubocop", "'", ",", Blank,
                                 "'", ">=", Blank, "3.0.0", "'">>
  => /\ reresolution.spec.name = <<"rubocop">>
     /\ reresolution.spec.operator = ">="
     /\ reresolution.spec.versionSpec = "3.0.0"
     /\ reresolution.spec.str = <<"rubocop", "@", ">=", "3.0.0">>
     /\ reresolution.again.name = <<"rubocop", "@", ">=", "3.0.0">>
     /\ reresolution.again.versionSpec = "latest"
     /\ reresolution.again.str = <<"rubocop", "@", ">=", "3.0.0", "@">>

(***************************************************************************)
(* setEpsilon while an invocation is under way                             *)
(***************************************************************************)
\* a callback waits for an answer of the registry
Suspended == \E i \in DOMAIN tasks : tasks[i].pc \in {"awaitDeps", "awaitGrand"}

\* setEpsilon(val), called before the invocation or while it is suspended
setEpsilon(val) ==
  /\ pc = "idle" \/ (pc = "batch" /\ AllStarted /\ Suspended)
  /\ val # thisEpsilon
  /\ thisEpsilon' = val
  /\ UNCHANGED <<inputs, computation, manifests, extraction, versionsCache, resolutions,
                 reresolution, other>>

InitEpsilon ==
  /\ topLevelPackages \in SeqsUpTo(RawPkgSpecs, MaxTop)
  /\ Ranked(topLevelPackages)
  /\ noCompList \in {{}, {"react"}}
  /\ epsilon \in Epsilons
  /\ registry \in {g \in Registries : /\ g[JDE.str] = <<MMH2>>
                                       /\ g[WAT.str] = <<REACT, MMH2>>
                                       /\ g[REACT.str] = <<MMH2>>
                                       /\ g[MMH2.str] = <<>>}
  /\ Trimmed
  /\ pkgRegId = [language |-> "javascript", registry |-> "npm"]
  /\ failing = {}
  /\ Fresh
  /\ Untouched

NextEpsilon ==
  \/ Next
  \/ \E val \in Epsilons : setEpsilon(val)

EpsilonSpec == InitEpsilon /\ [][NextEpsilon]_vars

(***************************************************************************)
(* C35 - the epsilon of an invocation                                      *)
(***************************************************************************)
\* C35: the invocation takes its epsilon from this.epsilon when it starts
\* and keeps it; whatever setEpsilon calls are made while it is suspended,
\* the map it returns is the map of the same inputs computed with the
\* epsilon it started with.
C35_EpsilonSnapshot ==
  [][/\ pc = "idle" /\ pc' = "loop" => epsilon' = thisEpsilon
     /\ pc # "idle" => epsilon' = epsilon
     /\ pc' = "done" =>
          LET specs == initialPackageSpecs(topLevelPackages)
              alone == LifoRun(<<[packages |-> specs, weight |-> initialWeight(specs)]>>,
                               <<>>, epsilon', MaxItems)
          IN alone.returned /\ alone.map = packageWeightMap']_vars

\* the invocation has returned, this.epsilon is no longer the epsilon it
\* started with, and with the new epsilon the map would have been another
C35_Witness ==
  /\ pc = "done"
  /\ thisEpsilon # epsilon
  /\ LET specs == initialPackageSpecs(topLevelPackages)
     IN LifoRun(<<[packages |-> specs, weight |-> initialWeight(specs)]>>,
                <<>>, thisEpsilon, MaxItems).map # packageWeightMap

(***************************************************************************)
(* The traversal with an epsilon that cuts nothing off                     *)
(***************************************************************************)
\* epsilon 0 and -0.01, and 0.5 to compare with
LowEpsilons == {Rat(0, 1), Rat(-1, 100), Rat(1, 2)}

\* the work item to pop is not lighter than 1 / 2^MaxHalvings
Shallow == queue # <<>> => RatLeq(Rat(1, 2^MaxHalvings), QueuePop(queue).item.weight)

PopShallow == Shallow /\ Pop

InitLow ==
  /\ topLevelPackages \in SeqsUpTo(RawPkgSpecs, MaxTop)
  /\ Ranked(topLevelPackages)
  /\ noCompList \in NoCompLists
  /\ epsilon \in LowEpsilons
  /\ registry \in Registries
  /\ Trimmed
  /\ pkgRegId = [language |-> "javascript", registry |-> "npm"]
  /\ failing = {}
  /\ Fresh
  /\ Untouched

NextLow ==
  \/ Begin
  \/ PopShallow
  \/ Return
  \/ Join
  \/ \E i \in DOMAIN tasks : StartTask(i)
  \/ \E i \in DOMAIN tasks : DepsReturn(i)
  \/ \E i \in DOMAIN tasks : \E j \in DOMAIN tasks[i].grand : GrandReturn(i, j)
  \/ \E i \in DOMAIN tasks : Finish(i)

LowSpec == InitLow /\ [][NextLow]_vars

(***************************************************************************)
(* C31 - when the traversal does not terminate                             *)
(***************************************************************************)
\* the keys of the packages a work item made for key k holds: the
\* dependencies of k that pass the no-comp filter and parse again
C31_HandedOn(k) ==
  LET all == registry[k]
      ncd == noCompDeps(all)
      grand == [j \in DOMAIN ncd |->
                  [depPkgSpec |-> ncd[j], got |-> TRUE,
                   grandDeps |-> registry[toString(ncd[j])]]]
      deps == FilterDeps(all, grand)
  IN {toString(deps[i]) : i \in {j \in DOMAIN deps : ~Threw(getSpec(toString(deps[j])))}}

RECURSIVE C31_ReachedFrom(_)
C31_ReachedFrom(ks) ==
  LET more == ks \cup UNION {C31_HandedOn(k) : k \in ks}
  IN IF more = ks THEN ks ELSE C31_ReachedFrom(more)

\* the keys the traversal processes when nothing is cut off
C31_Reached ==
  C31_ReachedFrom({toString(s) : s \in Range(initialPackageSpecs(topLevelPackages))})

\* a package the traversal processes lists itself as a dependency
C31_SelfDependency ==
  \E k \in C31_Reached : k \in {toString(d) : d \in Range(registry[k])}

\* a package the traversal processes is handed on to itself, at once or
\* through other packages
C31_Cycle ==
  \E k \in C31_Reached : k \in C31_ReachedFrom(C31_HandedOn(k))

\* C31 as stated: if epsilon is zero or negative, or a package the
\* traversal reaches lists itself as a dependency, the traversal does not
\* terminate: it never returns.
C31_NeverReturns ==
  RatLeq(epsilon, Zero) \/ C31_SelfDependency => pc # "done"

\* C31 (amended): if epsilon is zero or negative and a package the
\* traversal processes is handed on to itself, at once (it lists itself as
\* a dependency) or through other packages, the traversal never returns.
C31_NeverReturnsOnCycle ==
  RatLeq(epsilon, Zero) /\ C31_Cycle => pc # "done"

\* epsilon is zero, react lists itself, and the traversal is at a work
\* item of weight 1/16 or less
C31_Witness ==
  /\ epsilon = Zero
  /\ registry[REACT.str] = <<REACT>>
  /\ C31_SelfDependency
  /\ pc = "batch"
  /\ RatLeq(weight, Rat(1, 16))
  /\ \E i \in DOMAIN tasks : tasks[i].pkg = REACT

(***************************************************************************)
(* two computePackageWeight invocations on one resolver.  The maps and the *)
(* queue are locals of the invocation; what the two invocations share is   *)
(* the resolver (this.epsilon) and the registry client.  The second        *)
(* invocation is followed one work item at a time, its registry calls      *)
(* answered by the same registry, with the same noCompList.                *)
(***************************************************************************)

\* the top-level lists of the second invocation
OtherTops == {<<"js-deep-equals">>, <<"web-app-thing@1.0.1">>,
              <<"react@0.0.0", "js-deep-equals">>}

\* const packageWeightMap = new Map(), were the map a field of the resolver
NewWeightMap_Kept == packageWeightMap

\* const packageWeightMap = new Map()
NewWeightMap == <<>>

\* const queue = [{ packages: initialPackageSpecs, weight: initialWeight }]
NewQueue(pkgs) ==
  LET specs == initialPackageSpecs(pkgs)
  IN <<[packages |-> specs, weight |-> initialWeight(specs)]>>

\* the first invocation is between its call and its return
UnderWay == pc \in {"loop", "batch"}

\* the second invocation is called: its epsilon, its map and its queue
OtherBegin ==
  /\ other.pc = "idle"
  /\ other' = [other EXCEPT !.pc = "loop",
                            !.epsilon = thisEpsilon,
                            !.packageWeightMap = NewWeightMap,
                            !.queue = NewQueue(other.topLevelPackages)]
  /\ UNCHANGED <<inputs, computation, manifests, extraction, versionsCache, resolutions,
                 reresolution, thisEpsilon>>

\* one turn of the while loop of the second invocation
OtherBatch ==
  /\ other.pc = "loop"
  /\ other.queue # <<>>
  /\ LET item == QueuePop(other.queue).item
         after == BatchWeights(item.packages, item.weight, QueuePop(other.queue).rest,
                               other.packageWeightMap, other.epsilon)
     IN other' = [other EXCEPT !.packageWeightMap = after.map,
                               !.queue = after.queue,
                               !.during = other.during \/ UnderWay]
  /\ UNCHANGED <<inputs, computation, manifests, extraction, versionsCache, resolutions,
                 reresolution, thisEpsilon>>

\* the second invocation returns its map
OtherReturn ==
  /\ other.pc = "loop"
  /\ other.queue = <<>>
  /\ other' = [other EXCEPT !.pc = "done"]
  /\ UNCHANGED <<inputs, computation, manifests, extraction, versionsCache, resolutions,
                 reresolution, thisEpsilon>>

InitPair ==
  /\ topLevelPackages \in SeqsUpTo(RawPkgSpecs, MaxTop)
  /\ Ranked(topLevelPackages)
  /\ noCompList \in {{}, {"react"}}
  /\ epsilon \in Epsilons
  /\ registry \in {g \in Registries : /\ g[JDE.str] = <<MMH2>>
                                       /\ g[WAT.str] = <<REACT, MMH2>>
                                       /\ g[REACT.str] = <<MMH2>>
                                       /\ g[MMH2.str] = <<>>}
  /\ pkgRegId = [language |-> "javascript", registry |-> "npm"]
  /\ failing = {}
  /\ Fresh
  /\ manifests = <<>>
  /\ extraction = [called |-> FALSE, result |-> <<>>]
  /\ versionsCache = <<>>
  /\ resolutions = <<>>
  /\ reresolution = [stage |-> "none", input |-> [from |-> "", name |-> "", text |-> <<>>],
                     spec |-> NoGemSpec, again |-> NoGemSpec]
  /\ \E pkgs \in OtherTops : other = [NoOther EXCEPT !.pc = "idle", !.topLevelPackages = pkgs]

NextPair ==
  \/ Next
  \/ OtherBegin
  \/ OtherBatch
  \/ OtherReturn

PairSpec == InitPair /\ [][NextPair]_vars

\* computePackageWeight on the top-level list pkgs with the cutoff eps, run alone
C33_Alone(pkgs, eps) == LifoRun(NewQueue(pkgs), <<>>, eps, MaxItems)

====
